---- MODULE Spec2Model ----
(***************************************************************************)
(* Model of style/values/specified/position.rs: the grid-template-areas    *)
(* tokenizer and merger (TemplateAreasParser), the <position> parser and   *)
(* serializer, and the grid-auto-flow and aspect-ratio parsers.            *)
(*                                                                         *)
(* Strings are sequences of code points (naturals), so that the character  *)
(* comparisons of the source are integer comparisons here.  Vector indices *)
(* keep the source's 0-based values; areas[index + 1] reads areas[index].  *)
(***************************************************************************)
EXTENDS Integers, Sequences, FiniteSets, TLC

VARIABLES
    areas, area_indices, strings, width, row,   \* TemplateAreasParser fields
    driver,      \* "api": a caller of try_parse_string/finish; "parse": TemplateAreas::parse_internal
    pc,          \* "open": the parser is alive; "done": finish() has consumed it;
                 \* "again": the strings it returned were parsed once more
    result,      \* what finish() returned
    cursor,      \* tokens of the input the cursor has consumed
    fed          \* history: the string tokens handed to parse_string, with their outcome

VARIABLES
    again        \* what a fresh parser made of the strings of result

VARIABLES
    ptoks,       \* <position>: the tokens the cursor stands before
    pval,        \* <position>: a Position value to serialize
    pout,        \* <position>: the pieces of text Position::to_css wrote for pval
    ppc,         \* <position>: "tokens" | "value" | "written" | "reparsed"
    presQ,       \* what Position::parse_three_value_quirky returned on ptoks
    presS        \* what Position::parse returned, on ptoks or on pout

VARIABLES
    pcomputed    \* <position>: what to_computed_value returned for pval's two components

VARIABLES
    presC        \* <position>: what PositionComponent::parse_quirky returned on ptoks

VARIABLES
    mtoks,       \* masonry-auto-flow: the tokens of the input
    mres,        \* masonry-auto-flow: what MasonryAutoFlow::parse returned
    mpc          \* masonry-auto-flow: "tokens" | "parsed"

VARIABLES
    rp,          \* parse_string step by step: the parser's fields
    rst,         \* the locals of the parse_string call under way, with areas and area_indices
    rrest,       \* what the tokenizer has not read of the row string
    rpc,         \* "between" calls of parse_string | "loop": inside its for loop
    rres,        \* what the last parse_string call returned
    rcalls       \* parse_string calls begun

VARIABLES
    tkstr,       \* tokenizer: the row string the tokenizer was made for
    tkrest,      \* tokenizer: self.0, what it has not read yet
    tkcells,     \* tokenizer: the cells yielded so far, a null cell as <<>>
    tkpc         \* tokenizer: "run" | "ended": next() gave None | "failed": it gave Err

VARIABLES
    cpos,        \* is_center: the Position whose components are asked
    cres,        \* is_center: what is_center returned for the two components
    cpc          \* is_center: "value" | "asked"

VARIABLES
    linput,      \* TemplateAreas::parse: the tokens of the input
    lcursor,     \* TemplateAreas::parse: tokens the cursor has consumed
    lresult,     \* TemplateAreas::parse: what parse_internal returned
    lpc          \* TemplateAreas::parse: "loop" | "done"

VARIABLES
    gtoks,       \* grid-auto-flow: the tokens of the input
    gres,        \* grid-auto-flow: what GridAutoFlow::parse returned
    gpc          \* grid-auto-flow: "tokens" | "parsed" | "written" | "reparsed"

VARIABLES
    gout,        \* grid-auto-flow: what to_css wrote for the parsed value
    gagain       \* grid-auto-flow: what parse returned on what to_css wrote

VARIABLES
    atoks,       \* aspect-ratio: the tokens the cursor stands before
    ares,        \* aspect-ratio: what AspectRatio::parse returned
    apc          \* aspect-ratio: "tokens" | "parsed"

taVars == <<areas, area_indices, strings, width, row, driver, pc, result, cursor, fed, again>>
posVars == <<ptoks, pval, pout, ppc, presQ, presS, pcomputed, presC>>
masonVars == <<mtoks, mres, mpc>>
rowVars == <<rp, rst, rrest, rpc, rres, rcalls>>
tokVars == <<tkstr, tkrest, tkcells, tkpc>>
centerVars == <<cpos, cres, cpc>>
liveVars == <<linput, lcursor, lresult, lpc>>

flowVars == <<gtoks, gres, gpc, gout, gagain>>
arVars == <<atoks, ares, apc>>

vars == <<taVars, posVars, flowVars, arVars, masonVars, rowVars, tokVars, centerVars, liveVars>>

(***************************************************************************)
(* Bounds                                                                  *)
(***************************************************************************)
MaxStrings == 3      \* string tokens TemplateAreas::parse_internal reads
MaxApiStrings == 2   \* string tokens a caller of try_parse_string hands over
MaxWidth == 3        \* cells of a row string written with single spaces
MaxPosTokens == 4    \* tokens of a <position> input
MaxFlowTokens == 3   \* tokens of a grid-auto-flow input
MaxRatioTokens == 4  \* tokens of an aspect-ratio input
MaxMasonryTokens == 3  \* tokens of a masonry-auto-flow input
MaxInputTokens == 2  \* tokens of an input of TemplateAreas::parse
MaxRowLen == 4       \* code points of a row string given to the tokenizer

(***************************************************************************)
(* Code points                                                             *)
(***************************************************************************)
ChSpace == 32
ChBang == 33
ChDot == 46
ChA == 97
ChB == 98

HTML_SPACE_CHARACTERS == {32, 9, 10, 12, 13}

\* a variant that takes only ASCII for a name code point
is_name_code_point_ascii(c) ==
    \/ c >= 65 /\ c <= 90
    \/ c >= 97 /\ c <= 122
    \/ c = 95
    \/ c >= 48 /\ c <= 57
    \/ c = 45

is_name_code_point(c) ==
    \/ c >= 65 /\ c <= 90
    \/ c >= 97 /\ c <= 122
    \/ c >= 128
    \/ c = 95
    \/ c >= 48 /\ c <= 57
    \/ c = 45

(***************************************************************************)
(* TemplateAreasTokenizer                                                  *)
(***************************************************************************)
RECURSIVE trim_start_matches(_)
trim_start_matches(s) ==
    IF s # <<>> /\ Head(s) \in HTML_SPACE_CHARACTERS
    THEN trim_start_matches(Tail(s))
    ELSE s

\* rest.find(|c| c != '.').unwrap_or(rest.len()): 0-based index of the first non-dot
RECURSIVE find_not_dot(_)
find_not_dot(s) ==
    IF s = <<>> \/ Head(s) # ChDot THEN 0 ELSE 1 + find_not_dot(Tail(s))

\* rest.find(|c| !is_name_code_point(c)).unwrap_or(rest.len())
RECURSIVE find_not_name(_)
find_not_name(s) ==
    IF s = <<>> \/ ~is_name_code_point(Head(s)) THEN 0 ELSE 1 + find_not_name(Tail(s))

\* One call of Iterator::next.  kind: "end" (None), "null" (Some(Ok(None))),
\* "err" (Some(Err(()))), "name" (Some(Ok(Some(token)))); rest is self.0 afterwards.
TokenizerNext(s) ==
    LET rest == trim_start_matches(s) IN
    IF rest = <<>> THEN [kind |-> "end", token |-> <<>>, rest |-> s]
    ELSE IF Head(rest) = ChDot
    THEN [kind |-> "null", token |-> <<>>,
          rest |-> SubSeq(rest, find_not_dot(rest) + 1, Len(rest))]
    ELSE IF ~is_name_code_point(Head(rest))
    THEN [kind |-> "err", token |-> <<>>, rest |-> s]
    ELSE LET token_len == find_not_name(rest) IN
         [kind |-> "name", token |-> SubSeq(rest, 1, token_len),
          rest |-> SubSeq(rest, token_len + 1, Len(rest))]

\* The code points of the row strings given to the tokenizer alone: tab and
\* space, `!`, `-`, `.`, `9`, `_`, `a`, `b`, U+007F and U+0080
TokChars == {9, ChSpace, ChBang, 45, ChDot, 57, 95, ChA, ChB, 127, 128}

TokIdle == tkstr = <<>> /\ tkrest = <<>> /\ tkcells = <<>> /\ tkpc = "idle"

\* TemplateAreasTokenizer(string)
TokInit ==
    /\ tkstr \in UNION {[1..k -> TokChars] : k \in 0..MaxRowLen}
    /\ tkrest = tkstr /\ tkcells = <<>> /\ tkpc = "run"

\* one call of next() by `for token in TemplateAreasTokenizer(string)`, whose
\* body leaves the loop at the first Err
TokenizerStep ==
    /\ tkpc = "run"
    /\ \E t \in {TokenizerNext(tkrest)} :
         /\ tkrest' = t.rest
         /\ tkcells' = IF t.kind \in {"null", "name"} THEN Append(tkcells, t.token) ELSE tkcells
         /\ tkpc' = IF t.kind = "end" THEN "ended" ELSE IF t.kind = "err" THEN "failed" ELSE "run"
    /\ UNCHANGED tkstr
    /\ UNCHANGED <<taVars, posVars, flowVars, arVars, masonVars, rowVars, centerVars, liveVars>>

(***************************************************************************)
(* TemplateAreasParser::parse_string                                       *)
(***************************************************************************)
NoIndex == -1     \* current_area_index = None

NamedArea_no_columns(name, cs, ce, rs, re) ==
    [name |-> name, columns |-> [start |-> cs, end |-> cs], rows |-> [start |-> rs, end |-> re]]

NamedArea(name, cs, ce, rs, re) ==
    [name |-> name, columns |-> [start |-> cs, end |-> ce], rows |-> [start |-> rs, end |-> re]]

\* Entry::Occupied: the area must start in this column and end just above this
\* row, else parse_string returns Err(())
occupied_columns_only(area, column, cur_row) == area.columns.start = column

occupied_fits(area, column, cur_row) ==
    ~(area.columns.start # column \/ area.rows.end # cur_row)

\* `self.areas[index].columns.end != column` is false: the open area ended
\* just before this column
open_area_ended_always(area, column) == TRUE

open_area_ended(area, column) == area.columns.end = column

\* the cell has the name of the open area: `if self.areas[index].rows.start ==
\* self.row { self.areas[index].columns.end += 1; } continue;`
same_name_never_extends(st2, cur, cur_row) == st2

same_name_continue(st2, cur, cur_row) ==
    IF st2.areas[cur + 1].rows.start = cur_row
    THEN [st2 EXCEPT !.areas[cur + 1].columns.end = @ + 1]
    ELSE st2

\* The body of the `for token in TemplateAreasTokenizer(string)` loop for one
\* token t (never "end").  st holds the locals and the two fields the loop
\* writes; st.err is an early `return Err(())`.
\* a variant that writes no separator between the cells
push_separator_never(simplified, column) == simplified

\* `if column > 1 { simplified_string.push(' '); }`
push_separator(simplified, column) ==
    IF column > 1 THEN simplified \o <<ChSpace>> ELSE simplified

parse_string_token(st, t, cur_row) ==
    LET column == st.column + 1
        sep == push_separator(st.simplified, column)
        st1 == [st EXCEPT !.column = column, !.simplified = sep]
        name == t.token
        st2 == [st1 EXCEPT !.simplified = sep \o name]
        cur == st.current
    IN
    IF t.kind = "err" THEN [st1 EXCEPT !.err = TRUE]
    ELSE IF t.kind = "null" THEN
        IF cur # NoIndex /\ ~open_area_ended(st.areas[cur + 1], column)
        THEN [st1 EXCEPT !.err = TRUE, !.current = NoIndex]
        ELSE [st1 EXCEPT !.current = NoIndex, !.simplified = sep \o <<ChDot>>]
    ELSE IF cur # NoIndex /\ st.areas[cur + 1].name = name
    THEN same_name_continue(st2, cur, cur_row)
    ELSE IF cur # NoIndex /\ ~open_area_ended(st.areas[cur + 1], column)
    THEN [st2 EXCEPT !.err = TRUE]
    ELSE IF name \in DOMAIN st.area_indices THEN
        LET index == st.area_indices[name] IN
        IF ~occupied_fits(st.areas[index + 1], column, cur_row)
        THEN [st2 EXCEPT !.err = TRUE]
        ELSE [st2 EXCEPT !.areas[index + 1].rows.end = @ + 1, !.current = index]
    ELSE
        LET index == Len(st.areas) IN
        [st2 EXCEPT
            !.area_indices = [n \in DOMAIN st.area_indices \cup {name} |->
                                 IF n = name THEN index ELSE st.area_indices[n]],
            !.areas = Append(st.areas,
                             NamedArea(name, column, column + 1, cur_row, cur_row + 1)),
            !.current = index]

\* The loop: one tokenizer step and one body per turn, until the tokenizer
\* ends or the body returns Err(()).
RECURSIVE parse_string_loop(_, _, _)
parse_string_turn(st1, rest, cur_row) ==
    IF st1.err THEN st1 ELSE parse_string_loop(st1, rest, cur_row)

parse_string_next(st, t, cur_row) ==
    IF t.kind = "end" THEN st
    ELSE parse_string_turn(parse_string_token(st, t, cur_row), t.rest, cur_row)

parse_string_loop(st, rest, cur_row) == parse_string_next(st, TokenizerNext(rest), cur_row)

\* `if self.row == 1 { self.width = column } else if self.width != column
\* { return Err(()) }`: the width afterwards, and whether the row is rejected
set_width_every_row(w, cur_row, column) == [err |-> FALSE, width |-> column]

set_width(w, cur_row, column) ==
    IF cur_row = 1 THEN [err |-> FALSE, width |-> column]
    ELSE IF w # column THEN [err |-> TRUE, width |-> w]
    ELSE [err |-> FALSE, width |-> w]

\* parse_string after its loop: st is what the loop left, q the fields with
\* the loop's writes.  The result holds the fields after the call, whether it
\* returned Ok(()) or Err(()), and whether the debug_assert_ne! of the source
\* was evaluated with equal operands.
parse_string_end(q, st, cur_row) ==
    IF st.err THEN [ok |-> FALSE, assert_failed |-> FALSE, p |-> q]
    ELSE IF st.column = 0 THEN [ok |-> FALSE, assert_failed |-> FALSE, p |-> q]
    ELSE IF st.current # NoIndex /\ st.areas[st.current + 1].columns.end # st.column + 1
    THEN [ok |-> FALSE,
          assert_failed |-> st.areas[st.current + 1].rows.start = cur_row,
          p |-> q]
    ELSE IF set_width(q.width, cur_row, st.column).err
    THEN [ok |-> FALSE, assert_failed |-> FALSE, p |-> q]
    ELSE [ok |-> TRUE, assert_failed |-> FALSE,
          p |-> [q EXCEPT !.width = set_width(q.width, cur_row, st.column).width,
                          !.strings = Append(q.strings, st.simplified)]]

parse_string_after(p, st, cur_row) ==
    parse_string_end(
        [p EXCEPT !.row = cur_row, !.areas = st.areas, !.area_indices = st.area_indices],
        st, cur_row)

\* the locals at the top of parse_string, with the two fields the loop writes
parse_string_locals(p) ==
    [areas |-> p.areas, area_indices |-> p.area_indices, simplified |-> <<>>,
     current |-> NoIndex, column |-> 0, err |-> FALSE]

\* p: the parser's fields before the call
parse_string(p, string) ==
    parse_string_after(
        p,
        parse_string_loop(parse_string_locals(p), string, p.row + 1),
        p.row + 1)

\* TemplateAreasParser::finish
finish(p) ==
    IF p.strings = <<>>
    THEN [ok |-> FALSE, areas |-> <<>>, strings |-> <<>>, width |-> 0]
    ELSE [ok |-> TRUE, areas |-> p.areas, strings |-> p.strings, width |-> p.width]

(***************************************************************************)
(* Inputs: the tokens a cursor can stand before                            *)
(***************************************************************************)
SeqsUpTo(S, n) == UNION {[1..k -> S] : k \in 0..n}

Names == {<<ChA>>, <<ChB>>}
Cells == Names \cup {<<ChDot>>}

RECURSIVE Spaced(_)
Spaced(cs) ==
    IF Len(cs) = 0 THEN <<>>
    ELSE IF Len(cs) = 1 THEN cs[1]
    ELSE cs[1] \o <<ChSpace>> \o Spaced(Tail(cs))

\* rows written with single spaces, and every string of at most two of the
\* code points the tokenizer tells apart
SpacedRows == {Spaced(cs) : cs \in SeqsUpTo(Cells, MaxWidth) \ {<<>>}}
RawRows == {<<>>} \cup [1..1 -> {ChSpace, ChBang, ChDot, ChA, ChB}]
               \cup [1..2 -> {ChSpace, ChBang, ChDot, ChA, ChB}]
RowStrings == SpacedRows \cup RawRows

StringToken(s) == [kind |-> "string", str |-> s]
OtherTokens == {[kind |-> "ident", str |-> <<>>], [kind |-> "eof", str |-> <<>>]}
Tokens == {StringToken(s) : s \in RowStrings} \cup OtherTokens

\* what a caller of try_parse_string hands over: rows one cell narrower
ApiRows == {Spaced(cs) : cs \in SeqsUpTo(Cells, MaxWidth - 1) \ {<<>>}} \cup RawRows
ApiTokens == {StringToken(s) : s \in ApiRows} \cup OtherTokens

(***************************************************************************)
(* The template-areas state machine                                        *)
(***************************************************************************)
Parser == [areas |-> areas, area_indices |-> area_indices, strings |-> strings,
           width |-> width, row |-> row]

NoResult == [ok |-> FALSE, areas |-> <<>>, strings |-> <<>>, width |-> 0]

NotFedAgain == [accepted |-> FALSE, result |-> NoResult]

\* TemplateAreasParser::default()
TAInit ==
    /\ areas = <<>>
    /\ area_indices = <<>>
    /\ strings = <<>>
    /\ width = 0
    /\ row = 0
    /\ driver \in {"api", "parse"}
    /\ pc = "open"
    /\ result = NoResult
    /\ cursor = 0
    /\ fed = <<>>
    /\ again = NotFedAgain

SetParser(p) ==
    /\ areas' = p.areas
    /\ area_indices' = p.area_indices
    /\ strings' = p.strings
    /\ width' = p.width
    /\ row' = p.row

\* a variant in which the cursor stays before the string that was accepted
Attempt_consumes_nothing(r) == [ok |-> r.ok, p |-> r.p, consumed |-> 0, called |-> TRUE]

\* input.try_parse(|input| self.parse_string(input.expect_string()?)...): the
\* cursor is rewound on Err; the parser's fields are whatever parse_string left.
Attempt(r) == [ok |-> r.ok, p |-> r.p, consumed |-> IF r.ok THEN 1 ELSE 0, called |-> TRUE]

try_parse_string(p, tok) ==
    IF tok.kind # "string"
    THEN [ok |-> FALSE, p |-> p, consumed |-> 0, called |-> FALSE]
    ELSE Attempt(parse_string(p, tok.str))

Record(tok, r) ==
    IF r.called THEN Append(fed, [str |-> tok.str, ok |-> r.ok]) ELSE fed

\* a caller of the public API hands the token at the cursor to try_parse_string,
\* whatever the earlier calls returned
TryParseString ==
    /\ driver = "api" /\ pc = "open"
    /\ Len(fed) < MaxApiStrings
    /\ \E tok \in ApiTokens :
         \E r \in {try_parse_string(Parser, tok)} :
         /\ SetParser(r.p)
         /\ cursor' = cursor + r.consumed
         /\ fed' = Record(tok, r)
    /\ UNCHANGED <<driver, pc, result, again>>
    /\ UNCHANGED <<posVars, flowVars, arVars, masonVars, rowVars, tokVars, centerVars, liveVars>>

\* a caller of the public API consumes the parser
Finish ==
    /\ driver = "api" /\ pc = "open"
    /\ result' = finish(Parser)
    /\ pc' = "done"
    /\ UNCHANGED <<areas, area_indices, strings, width, row, driver, cursor, fed, again>>
    /\ UNCHANGED <<posVars, flowVars, arVars, masonVars, rowVars, tokVars, centerVars, liveVars>>

\* TemplateAreas::parse_internal: one turn of
\* `while parser.try_parse_string(input).is_ok() {}`, and parser.finish() once it is not
ParseInternal ==
    /\ driver = "parse" /\ pc = "open"
    /\ \E tok \in Tokens :
         /\ tok.kind = "string" => Len(fed) < MaxStrings
         /\ \E r \in {try_parse_string(Parser, tok)} :
            /\ SetParser(r.p)
            /\ cursor' = cursor + r.consumed
            /\ fed' = Record(tok, r)
            /\ IF r.ok
               THEN UNCHANGED <<pc, result>>
               ELSE pc' = "done" /\ result' = finish(r.p)
    /\ UNCHANGED <<driver, again>>
    /\ UNCHANGED <<posVars, flowVars, arVars, masonVars, rowVars, tokVars, centerVars, liveVars>>

(***************************************************************************)
(* parse_string, one turn of its loop at a time                            *)
(***************************************************************************)
NoRowResult == [ok |-> FALSE, assert_failed |-> FALSE]

RowFresh ==
    [areas |-> <<>>, area_indices |-> <<>>, strings |-> <<>>, width |-> 0, row |-> 0]

RowIdle ==
    /\ rp = RowFresh /\ rst = parse_string_locals(RowFresh) /\ rrest = <<>>
    /\ rpc = "idle" /\ rres = NoRowResult /\ rcalls = 0

\* TemplateAreasParser::default()
RowInit ==
    /\ rp = RowFresh /\ rst = parse_string_locals(RowFresh) /\ rrest = <<>>
    /\ rpc = "between" /\ rres = NoRowResult /\ rcalls = 0

\* parse_string is entered: `self.row += 1` and the locals
RowBegin ==
    /\ rpc = "between" /\ rcalls < MaxApiStrings
    /\ \E string \in ApiRows :
         /\ rp' = [rp EXCEPT !.row = @ + 1]
         /\ rst' = parse_string_locals(rp)
         /\ rrest' = string
    /\ rpc' = "loop"
    /\ rcalls' = rcalls + 1
    /\ UNCHANGED rres
    /\ UNCHANGED <<taVars, posVars, flowVars, arVars, masonVars, tokVars, centerVars, liveVars>>

\* one turn of `for token in TemplateAreasTokenizer(string)`
RowToken ==
    /\ rpc = "loop" /\ ~rst.err
    /\ \E t \in {TokenizerNext(rrest)} :
         /\ t.kind # "end"
         /\ rst' = parse_string_token(rst, t, rp.row)
         /\ rrest' = t.rest
    /\ UNCHANGED <<rp, rpc, rres, rcalls>>
    /\ UNCHANGED <<taVars, posVars, flowVars, arVars, masonVars, tokVars, centerVars, liveVars>>

\* the loop is left, by an early return or at the end of the tokens, and
\* parse_string returns
RowEnd ==
    /\ rpc = "loop"
    /\ rst.err \/ TokenizerNext(rrest).kind = "end"
    /\ \E r \in {parse_string_after(rp, rst, rp.row)} :
         /\ rp' = r.p
         /\ rres' = [ok |-> r.ok, assert_failed |-> r.assert_failed]
    /\ rpc' = "between"
    /\ UNCHANGED <<rst, rrest, rcalls>>
    /\ UNCHANGED <<taVars, posVars, flowVars, arVars, masonVars, tokVars, centerVars, liveVars>>

(***************************************************************************)
(* TemplateAreas::parse, step by step                                      *)
(***************************************************************************)
\* the tokens of an input: string tokens of short rows, and tokens that are
\* no strings
InputTokens == {StringToken(s) : s \in RawRows} \cup {[kind |-> "ident", str |-> <<>>]}

\* a finite input before the cursor, and TemplateAreasParser::default()
LiveInit ==
    /\ linput \in SeqsUpTo(InputTokens, MaxInputTokens)
    /\ lcursor = 0 /\ lresult = NoResult /\ lpc = "loop"
    /\ RowInit

\* the token at the cursor is a string
AtString == lcursor < Len(linput) /\ linput[lcursor + 1].kind = "string"

\* `while parser.try_parse_string(input).is_ok() {}`: expect_string() gave a
\* string and parse_string is entered
ParseBegin ==
    /\ lpc = "loop" /\ rpc = "between" /\ AtString
    /\ rp' = [rp EXCEPT !.row = @ + 1]
    /\ rst' = parse_string_locals(rp)
    /\ rrest' = linput[lcursor + 1].str
    /\ rpc' = "loop"
    /\ rcalls' = rcalls + 1
    /\ UNCHANGED <<rres, liveVars>>
    /\ UNCHANGED <<taVars, posVars, flowVars, arVars, masonVars, tokVars, centerVars>>

\* parse_string returns and try_parse keeps the string consumed or rewinds;
\* on Err the while loop is left and finish() is called
ParseRowEnd ==
    /\ lpc = "loop" /\ rpc = "loop"
    /\ rst.err \/ TokenizerNext(rrest).kind = "end"
    /\ \E returned \in {parse_string_after(rp, rst, rp.row)} :
         \E r \in {Attempt(returned)} :
         /\ rp' = r.p
         /\ rres' = [ok |-> returned.ok, assert_failed |-> returned.assert_failed]
         /\ lcursor' = lcursor + r.consumed
         /\ IF r.ok THEN UNCHANGED <<lpc, lresult>>
            ELSE lpc' = "done" /\ lresult' = finish(r.p)
    /\ rpc' = "between"
    /\ UNCHANGED <<rst, rrest, rcalls, linput>>
    /\ UNCHANGED <<taVars, posVars, flowVars, arVars, masonVars, tokVars, centerVars>>

\* expect_string() fails, at the end of the input or at another token: the
\* cursor is rewound, the while loop is left and finish() is called
ParseStop ==
    /\ lpc = "loop" /\ rpc = "between" /\ ~AtString
    /\ lpc' = "done"
    /\ lresult' = finish(rp)
    /\ UNCHANGED <<linput, lcursor>>
    /\ UNCHANGED <<taVars, posVars, flowVars, arVars, masonVars, rowVars, tokVars, centerVars>>

(***************************************************************************)
(* What the rows fed so far say, read off the strings themselves           *)
(***************************************************************************)
\* every cell the tokenizer yields for s, a null cell as <<>>; err if it fails
RECURSIVE Tokenize(_)
TokenizeCons(t, more) ==
    [err |-> more.err, cells |-> <<t.token>> \o more.cells]

TokenizeFrom(t) ==
    IF t.kind = "end" THEN [err |-> FALSE, cells |-> <<>>]
    ELSE IF t.kind = "err" THEN [err |-> TRUE, cells |-> <<>>]
    ELSE TokenizeCons(t, Tokenize(t.rest))

Tokenize(s) == TokenizeFrom(TokenizerNext(s))

CellCount(s) == Len(Tokenize(s).cells)

\* TemplateAreas::parse_internal on the strings of a TemplateAreas: every
\* string is handed to try_parse_string of one fresh parser until one is
\* rejected or none is left, and finish() is called
RECURSIVE parse_strings(_, _)
parse_strings_next(r, more) ==
    IF r.ok THEN parse_strings(r.p, more) ELSE [accepted |-> FALSE, result |-> finish(r.p)]

parse_strings(p, rows) ==
    IF rows = <<>> THEN [accepted |-> TRUE, result |-> finish(p)]
    ELSE parse_strings_next(parse_string(p, Head(rows)), Tail(rows))

\* the strings of the TemplateAreas that was returned for rows that were all
\* accepted are parsed by a fresh parser
ParseAgain ==
    /\ pc = "done" /\ result.ok
    /\ \A i \in 1..Len(fed) : fed[i].ok
    /\ again' = parse_strings(RowFresh, result.strings)
    /\ pc' = "again"
    /\ UNCHANGED <<areas, area_indices, strings, width, row, driver, result, cursor, fed>>
    /\ UNCHANGED <<posVars, flowVars, arVars, masonVars, rowVars, tokVars, centerVars, liveVars>>

FedRows == [i \in 1..Len(fed) |-> fed[i].str]
AllAccepted == \A i \in 1..Len(fed) : fed[i].ok

\* the grid of cells of a sequence of row strings
Grid(rows) == [i \in 1..Len(rows) |-> Tokenize(rows[i])]

GridNames(g) == {g[r].cells[c] : r \in 1..Len(g), c \in 1..Len(g[1].cells)} \ {<<>>}
CellsOf(g, n) == {rc \in (1..Len(g)) \X (1..Len(g[1].cells)) : g[rc[1]].cells[rc[2]] = n}
MinOf(S) == CHOOSE x \in S : \A y \in S : x <= y
MaxOf(S) == CHOOSE x \in S : \A y \in S : x >= y
RowsOf(g, n) == {rc[1] : rc \in CellsOf(g, n)}
ColsOf(g, n) == {rc[2] : rc \in CellsOf(g, n)}

\* the cells named n are one filled rectangle
IsRectangle(g, n) ==
    CellsOf(g, n) = (MinOf(RowsOf(g, n))..MaxOf(RowsOf(g, n)))
                        \X (MinOf(ColsOf(g, n))..MaxOf(ColsOf(g, n)))

\* every row tokenizes to the same non-zero number of cells, and every name is
\* one filled rectangle
WellFormed(g) ==
    /\ \A r \in 1..Len(g) : ~g[r].err /\ Len(g[r].cells) = Len(g[1].cells)
    /\ Len(g[1].cells) > 0
    /\ \A n \in GridNames(g) : IsRectangle(g, n)

\* place of the first cell named n, reading top-to-bottom, left-to-right
FirstSeen(g, n) ==
    MinOf({(rc[1] - 1) * Len(g[1].cells) + rc[2] : rc \in CellsOf(g, n)})

\* as is the list of the rectangles of g, one per name, in first-seen order
AreasOfGrid(as, g) ==
    /\ Len(as) = Cardinality(GridNames(g))
    /\ \A i \in 1..Len(as) :
         /\ as[i].name \in GridNames(g)
         /\ as[i].rows = [start |-> MinOf(RowsOf(g, as[i].name)),
                          end |-> MaxOf(RowsOf(g, as[i].name)) + 1]
         /\ as[i].columns = [start |-> MinOf(ColsOf(g, as[i].name)),
                             end |-> MaxOf(ColsOf(g, as[i].name)) + 1]
    /\ \A i, j \in 1..Len(as) :
         i < j => FirstSeen(g, as[i].name) < FirstSeen(g, as[j].name)

C1Holds(g) ==
    /\ AllAccepted <=> WellFormed(g)
    /\ pc = "done" /\ AllAccepted =>
         /\ result.ok
         /\ AreasOfGrid(result.areas, g)
         /\ result.width = Len(g[1].cells)

\* C1: for a non-empty sequence of row strings fed to a fresh parser, every row
\* is accepted exactly when every row tokenizes to the same non-zero number of
\* cells and every name covers one filled rectangle; finish() then returns one
\* NamedArea per name, in first-seen order, whose ranges are that rectangle.
C1_RectanglesExactly == fed # <<>> => C1Holds(Grid(FedRows))

\* rows "a a b", "a a b", ". . ." were accepted and finish() returned a = rows
\* [1,3) columns [1,3), b = rows [1,3) columns [3,4), width 3
C1_Witness ==
    /\ pc = "done" /\ result.ok
    /\ FedRows = << <<ChA, ChSpace, ChA, ChSpace, ChB>>, <<ChA, ChSpace, ChA, ChSpace, ChB>>,
                    <<ChDot, ChSpace, ChDot, ChSpace, ChDot>> >>
    /\ result.areas = << NamedArea(<<ChA>>, 1, 3, 1, 3), NamedArea(<<ChB>>, 3, 4, 1, 3) >>
    /\ result.width = 3

\* C2: a TemplateAreas that finish() returns has a string for every grid row,
\* so no area ends below the last string, and every string has width cells.
C2_StringsCoverRows ==
    pc = "done" /\ result.ok =>
        /\ \A i \in 1..Len(result.areas) : result.areas[i].rows.end - 1 <= Len(result.strings)
        /\ \A i \in 1..Len(result.strings) : CellCount(result.strings[i]) = result.width

\* C3: TemplateAreas::parse fails whenever the merger rejected a row string.
C3_RejectedRowFailsParse ==
    driver = "parse" /\ pc = "done" /\ ~AllAccepted => ~result.ok

\* C13: a try_parse_string call that fails is a no-op: the cursor is where it
\* was before the string and areas, area_indices, strings, width and row are
\* what they were before the call.
C13_FailedCallIsNoOp ==
    [][Len(fed') = Len(fed) + 1 /\ ~fed'[Len(fed')].ok =>
           /\ cursor' = cursor
           /\ UNCHANGED <<areas, area_indices, strings, width, row>>]_vars

C7Step(last) ==
    /\ width' # width => row = 0 /\ width' = CellCount(last.str)
    /\ row = 0 /\ last.ok => width' = CellCount(last.str)
    /\ row >= 1 /\ (Tokenize(last.str).err \/ CellCount(last.str) # width) => ~last.ok

\* C7: width is assigned only while the first row string is processed, to the
\* number of cells of that row; a later row with another number of cells is
\* rejected, and no later row, accepted or rejected, changes width.
C7_WidthFixedByFirstRow ==
    [][Len(fed') = Len(fed) + 1 => C7Step(fed'[Len(fed')])]_vars

\* a second row with another number of cells than the first was rejected and
\* width is still the first row's
C7_Witness ==
    /\ Len(fed) = 2 /\ fed[1].ok /\ ~fed[2].ok
    /\ ~Tokenize(fed[2].str).err /\ CellCount(fed[2].str) # CellCount(fed[1].str)
    /\ CellCount(fed[2].str) > 0
    /\ width = CellCount(fed[1].str) /\ row = 2

(***************************************************************************)
(* <position>: tokens and values                                           *)
(***************************************************************************)
\* The tokens of a <position> input: identifiers, two dimensions/percentages,
\* a unitless number, and an identifier of no grammar.  Eof is what the
\* cursor sees at the end of the input.
PosTokens == {"center", "CENTER", "left", "right", "top", "bottom",
              "10px", "50%", "10", "foo"}
Eof == "<eof>"

None == "none"   \* Option::None, and the absent field of a variant

Center == [tag |-> "Center", kw |-> None, lp |-> None]
Length(lp) == [tag |-> "Length", kw |-> None, lp |-> lp]
Side(kw, lp) == [tag |-> "Side", kw |-> kw, lp |-> lp]

LengthPercentages == {"10px", "50%"}
HorizontalPositionKeyword == {"Left", "Right"}
VerticalPositionKeyword == {"Top", "Bottom"}

Components(S) ==
    {Center} \cup {Length(lp) : lp \in LengthPercentages}
             \cup {Side(kw, lp) : kw \in S, lp \in LengthPercentages \cup {None}}

Positions ==
    {[horizontal |-> h, vertical |-> v] :
        h \in Components(HorizontalPositionKeyword),
        v \in Components(VerticalPositionKeyword)}

\* the token at the cursor
Peek(toks, pos) == IF pos < Len(toks) THEN toks[pos + 1] ELSE Eof

\* ASCII lower-casing of the identifiers of PosTokens
AsciiLower(tok) == IF tok = "CENTER" THEN "center" ELSE tok

Ok(value, pos) == [ok |-> TRUE, value |-> value, pos |-> pos]
Err(pos) == [ok |-> FALSE, value |-> None, pos |-> pos]

\* input.try_parse(|i| i.expect_ident_matching(name))
expect_ident_matching(toks, pos, name) ==
    IF AsciiLower(Peek(toks, pos)) = name THEN Ok(name, pos + 1) ELSE Err(pos)

\* input.try_parse(|i| LengthPercentage::parse_quirky(context, i, allow_quirks)):
\* a dimension or a percentage, and a unitless number, read as px, under quirks
LengthPercentage_parse_quirky(toks, pos, allow_quirks) ==
    IF Peek(toks, pos) \in LengthPercentages THEN Ok(Peek(toks, pos), pos + 1)
    ELSE IF Peek(toks, pos) = "10" /\ allow_quirks = "Yes" THEN Ok("10px", pos + 1)
    ELSE Err(pos)

\* #[derive(Parse)] of the two keyword enums, under try_parse
KeywordOf(tok) ==
    IF tok = "left" THEN "Left" ELSE IF tok = "right" THEN "Right"
    ELSE IF tok = "top" THEN "Top" ELSE IF tok = "bottom" THEN "Bottom" ELSE None

Keyword_parse(S, toks, pos) ==
    IF KeywordOf(AsciiLower(Peek(toks, pos))) \in S
    THEN Ok(KeywordOf(AsciiLower(Peek(toks, pos))), pos + 1)
    ELSE Err(pos)

\* an Option from a try_parse(..).ok()
OptionOf(r) == IF r.ok THEN r.value ELSE None

(***************************************************************************)
(* PositionComponent::parse_quirky, under try_parse                        *)
(***************************************************************************)
SideWithOffset(keyword, lp) == Ok(Side(keyword.value, OptionOf(lp)), lp.pos)

\* a variant that never looks for the offset after the keyword
parse_quirky_side_no_offset(keyword, toks, allow_quirks) ==
    IF ~keyword.ok THEN Err(keyword.pos)
    ELSE SideWithOffset(keyword, Err(keyword.pos))

parse_quirky_side(keyword, toks, allow_quirks) ==
    IF ~keyword.ok THEN Err(keyword.pos)
    ELSE SideWithOffset(keyword, LengthPercentage_parse_quirky(toks, keyword.pos, allow_quirks))

parse_quirky_length(S, lp, toks, pos, allow_quirks) ==
    IF lp.ok THEN Ok(Length(lp.value), lp.pos)
    ELSE parse_quirky_side(Keyword_parse(S, toks, pos), toks, allow_quirks)

parse_quirky(S, toks, pos, allow_quirks) ==
    IF expect_ident_matching(toks, pos, "center").ok THEN Ok(Center, pos + 1)
    ELSE parse_quirky_length(S, LengthPercentage_parse_quirky(toks, pos, allow_quirks),
                             toks, pos, allow_quirks)

(***************************************************************************)
(* Position::parse_three_value_quirky                                      *)
(***************************************************************************)
Position(h, v) == [horizontal |-> h, vertical |-> v]

\* Ok(x_pos @ PositionComponent::Center), after the vertical attempt failed
center_then_horizontal_never(x2, pos) == Ok(Position(Center, Center), pos)

center_then_horizontal(x2, pos) ==
    IF x2.ok THEN Ok(Position(x2.value, Center), x2.pos)
    ELSE Ok(Position(Center, Center), pos)

center_branch(y, toks, pos, allow_quirks) ==
    IF y.ok THEN Ok(Position(Center, y.value), y.pos)
    ELSE center_then_horizontal(
             parse_quirky(HorizontalPositionKeyword, toks, pos, allow_quirks), pos)

\* the horizontal side found no `center` and no vertical keyword after it
side_alone_as_length(x_keyword, lp) ==
    Position(IF lp = None THEN Side(x_keyword, None) ELSE Length(lp), Center)

side_alone_keeps_offset(x_keyword, lp) ==
    Position(Side(x_keyword, lp), IF lp = None THEN Center ELSE Length(lp))

side_alone(x_keyword, lp) ==
    Position(Side(x_keyword, None), IF lp = None THEN Center ELSE Length(lp))

side_then_vertical(x_keyword, lp, y_keyword, y_lp) ==
    Ok(Position(Side(x_keyword, lp), Side(y_keyword.value, OptionOf(y_lp))), y_lp.pos)

side_branch_keyword(x_keyword, lp, y_keyword, toks, pos, allow_quirks) ==
    IF y_keyword.ok
    THEN side_then_vertical(x_keyword, lp, y_keyword,
             LengthPercentage_parse_quirky(toks, y_keyword.pos, allow_quirks))
    ELSE Ok(side_alone(x_keyword, lp), pos)

\* Ok(PositionComponent::Side(x_keyword, lp))
side_branch(x_keyword, lp, toks, pos, allow_quirks) ==
    IF expect_ident_matching(toks, pos, "center").ok
    THEN Ok(Position(Side(x_keyword, lp), Center), pos + 1)
    ELSE side_branch_keyword(x_keyword, lp,
             Keyword_parse(VerticalPositionKeyword, toks, pos), toks, pos, allow_quirks)

length_branch_lp_leaves_center(x_pos, y_lp, toks, pos) ==
    IF y_lp.ok THEN Ok(Position(x_pos, Length(y_lp.value)), y_lp.pos)
    ELSE Ok(Position(x_pos, Center), pos)

length_branch_lp(x_pos, y_lp, toks, pos) ==
    IF y_lp.ok THEN Ok(Position(x_pos, Length(y_lp.value)), y_lp.pos)
    ELSE Ok(Position(x_pos, Center), expect_ident_matching(toks, pos, "center").pos)

\* Ok(x_pos @ PositionComponent::Length(_))
length_branch(x_pos, y_keyword, toks, pos, allow_quirks) ==
    IF y_keyword.ok THEN Ok(Position(x_pos, Side(y_keyword.value, None)), y_keyword.pos)
    ELSE length_branch_lp(x_pos, LengthPercentage_parse_quirky(toks, pos, allow_quirks),
                          toks, pos)

\* the closure of lp_and_x_pos: Ok((y_lp, x_pos)) with the cursor, or Err
nested_x_side(y_lp, x_keyword, x_lp) ==
    Ok([y_lp |-> OptionOf(y_lp), x_pos |-> Side(x_keyword.value, OptionOf(x_lp))], x_lp.pos)

nested_x(y_lp, x_keyword, toks, allow_quirks) ==
    IF x_keyword.ok
    THEN nested_x_side(y_lp, x_keyword,
             LengthPercentage_parse_quirky(toks, x_keyword.pos, allow_quirks))
    ELSE IF expect_ident_matching(toks, y_lp.pos, "center").ok
    THEN Ok([y_lp |-> OptionOf(y_lp), x_pos |-> Center], y_lp.pos + 1)
    ELSE Err(y_lp.pos)

lp_and_x_pos(y_lp, toks, allow_quirks) ==
    nested_x(y_lp, Keyword_parse(HorizontalPositionKeyword, toks, y_lp.pos), toks, allow_quirks)

vertical_first_end_no_rewind(y_keyword, nested) ==
    IF nested.ok
    THEN Ok(Position(nested.value.x_pos, Side(y_keyword.value, nested.value.y_lp)), nested.pos)
    ELSE Ok(Position(Center, Side(y_keyword.value, None)), nested.pos)

vertical_first_end(y_keyword, nested) ==
    IF nested.ok
    THEN Ok(Position(nested.value.x_pos, Side(y_keyword.value, nested.value.y_lp)), nested.pos)
    ELSE Ok(Position(Center, Side(y_keyword.value, None)), y_keyword.pos)

\* Err(_) => {}: the value starts with a vertical keyword, or the parse fails
vertical_first(y_keyword, toks, allow_quirks) ==
    IF ~y_keyword.ok THEN Err(y_keyword.pos)
    ELSE vertical_first_end(y_keyword,
             lp_and_x_pos(LengthPercentage_parse_quirky(toks, y_keyword.pos, allow_quirks),
                          toks, allow_quirks))

three_value_match(x, toks, pos, allow_quirks) ==
    IF x.ok /\ x.value.tag = "Center"
    THEN center_branch(parse_quirky(VerticalPositionKeyword, toks, x.pos, allow_quirks),
                       toks, x.pos, allow_quirks)
    ELSE IF x.ok /\ x.value.tag = "Side"
    THEN side_branch(x.value.kw, x.value.lp, toks, x.pos, allow_quirks)
    ELSE IF x.ok
    THEN length_branch(x.value, Keyword_parse(VerticalPositionKeyword, toks, x.pos),
                       toks, x.pos, allow_quirks)
    ELSE vertical_first(Keyword_parse(VerticalPositionKeyword, toks, pos), toks, allow_quirks)

parse_three_value_quirky(toks, pos, allow_quirks) ==
    three_value_match(parse_quirky(HorizontalPositionKeyword, toks, pos, allow_quirks),
                      toks, pos, allow_quirks)

(***************************************************************************)
(* PositionComponent::is_center                                            *)
(***************************************************************************)
\* The LengthPercentage values is_center is asked about: a length, two
\* percentages, and a calc() of 50%, which is LengthPercentage::Calc
CenterLengthPercentages == {"10px", "25%", "50%", "calc(50%)"}

\* LengthPercentage::Percentage(ref per)
IsPercentage(lp) == lp \in {"25%", "50%"}

\* per.0, in hundredths
PercentageOf(lp) == IF lp = "50%" THEN 50 ELSE 25

\* a variant that takes every percentage for the centre
is_center_any_percentage(c) ==
    IF c.tag = "Center" THEN TRUE
    ELSE IF c.tag = "Length" /\ IsPercentage(c.lp) THEN TRUE
    ELSE IF c.tag = "Side" /\ c.lp # None /\ IsPercentage(c.lp) THEN TRUE
    ELSE FALSE

is_center(c) ==
    IF c.tag = "Center" THEN TRUE
    ELSE IF c.tag = "Length" /\ IsPercentage(c.lp) THEN PercentageOf(c.lp) = 50
    ELSE IF c.tag = "Side" /\ c.lp # None /\ IsPercentage(c.lp) THEN PercentageOf(c.lp) = 50
    ELSE FALSE

CenterComponents(S) ==
    {Center} \cup {Length(lp) : lp \in CenterLengthPercentages}
             \cup {Side(kw, lp) : kw \in S, lp \in CenterLengthPercentages \cup {None}}

\* a Position of any two components
CenterInit ==
    /\ cpos \in {Position(h, v) : h \in CenterComponents(HorizontalPositionKeyword),
                                  v \in CenterComponents(VerticalPositionKeyword)}
    /\ cres = [horizontal |-> FALSE, vertical |-> FALSE]
    /\ cpc = "value"

\* is_center on the two components of the Position
IsCenter ==
    /\ cpc = "value"
    /\ cres' = [horizontal |-> is_center(cpos.horizontal),
                vertical |-> is_center(cpos.vertical)]
    /\ cpc' = "asked"
    /\ UNCHANGED cpos
    /\ UNCHANGED <<taVars, posVars, flowVars, arVars, masonVars, rowVars, tokVars, liveVars>>

(***************************************************************************)
(* Position::parse, component_count, is_three_value_syntax                 *)
(***************************************************************************)
component_count_side_two(c) ==
    IF c.tag = "Length" \/ c.tag = "Center" THEN 1 ELSE 2

component_count(c) ==
    IF c.tag = "Length" \/ c.tag = "Center" THEN 1
    ELSE IF c.lp # None THEN 2 ELSE 1

is_three_value_syntax(position) ==
    component_count(position.horizontal) # component_count(position.vertical)

Position_parse_checked(position) ==
    IF ~position.ok THEN position
    ELSE IF is_three_value_syntax(position.value) THEN Err(position.pos)
    ELSE position

Position_parse(toks, pos) ==
    Position_parse_checked(parse_three_value_quirky(toks, pos, "No"))

(***************************************************************************)
(* ToCss for PositionComponent (derived) and for Position                  *)
(***************************************************************************)
\* the identifier a keyword serializes to
Keyword_to_css(kw) ==
    IF kw = "Left" THEN "left" ELSE IF kw = "Right" THEN "right"
    ELSE IF kw = "Top" THEN "top" ELSE "bottom"

\* what is written for one component: its parts, a space between two
PositionComponent_to_css(c) ==
    IF c.tag = "Center" THEN <<"center">>
    ELSE IF c.tag = "Length" THEN <<c.lp>>
    ELSE IF c.lp = None THEN <<Keyword_to_css(c.kw)>>
    ELSE <<Keyword_to_css(c.kw), " ", c.lp>>

Position_to_css_vertical_first(position) ==
    PositionComponent_to_css(position.vertical) \o <<" ">>
        \o PositionComponent_to_css(position.horizontal)

Position_to_css_plain(position) ==
    PositionComponent_to_css(position.horizontal) \o <<" ">>
        \o PositionComponent_to_css(position.vertical)

\* what Position::to_css writes, in the order written
Position_to_css(position) ==
    IF position.horizontal.tag = "Side" /\ position.horizontal.lp # None
       /\ position.vertical.tag = "Length"
    THEN PositionComponent_to_css(position.horizontal) \o <<" ", "top", " ">>
             \o <<position.vertical.lp>>
    ELSE IF position.horizontal.tag = "Length"
            /\ position.vertical.tag = "Side" /\ position.vertical.lp # None
    THEN <<"left", " ">> \o <<position.horizontal.lp>> \o <<" ">>
             \o PositionComponent_to_css(position.vertical)
    ELSE PositionComponent_to_css(position.horizontal) \o <<" ">>
             \o PositionComponent_to_css(position.vertical)

\* the tokens a cursor over the written text yields: whitespace separates them
IsNoSpace(piece) == piece # " "
CssTokens(written) == SelectSeq(written, IsNoSpace)

(***************************************************************************)
(* PositionComponent::to_computed_value                                    *)
(***************************************************************************)
\* Side::start() of the two keyword types
Side_start(S) == IF S = HorizontalPositionKeyword THEN "Left" ELSE "Top"

is_start_left_only(S, keyword) == keyword = "Left"

\* Side::is_start: *self == Self::start()
is_start(S, keyword) == keyword = Side_start(S)

\* ComputedLengthPercentage::new_percent(Percentage(p)), p in hundredths
new_percent(p) == [tag |-> "Percent", pct |-> p, lp |-> None]

\* length.to_computed_value(context): the computed form of a <length-percentage>
LengthPercentage_to_computed_value(lp) == [tag |-> "Computed", pct |-> 0, lp |-> lp]

\* ComputedLengthPercentage::hundred_percent_minus(length, AllowedNumericType::All):
\* the expression 100% - length, kept as an expression
hundred_percent_minus(length) == [tag |-> "HundredPercentMinus", pct |-> 100, lp |-> length.lp]

\* the match of to_computed_value, its arms in the order of the source
to_computed_value(S, c) ==
    IF c.tag = "Center" THEN new_percent(50)
    ELSE IF c.tag = "Side" /\ c.lp = None
    THEN new_percent(IF is_start(S, c.kw) THEN 0 ELSE 100)
    ELSE IF c.tag = "Side" /\ ~is_start(S, c.kw)
    THEN hundred_percent_minus(LengthPercentage_to_computed_value(c.lp))
    ELSE LengthPercentage_to_computed_value(c.lp)

NotComputed == [horizontal |-> new_percent(0), vertical |-> new_percent(0)]

(***************************************************************************)
(* The <position> state machine                                            *)
(***************************************************************************)
NotCalled == [called |-> FALSE, allow_quirks |-> None, ok |-> FALSE, value |-> None, pos |-> 0]
Called(r, allow_quirks) ==
    [called |-> TRUE, allow_quirks |-> allow_quirks, ok |-> r.ok, value |-> r.value, pos |-> r.pos]

NoPosition == Position(Center, Center)

\* the result of PositionComponent::<S>::parse_quirky, with the S it was called for
NoComponent ==
    [called |-> FALSE, allow_quirks |-> None, axis |-> None, ok |-> FALSE, value |-> None, pos |-> 0]
CalledFor(axis, r, allow_quirks) ==
    [called |-> TRUE, allow_quirks |-> allow_quirks, axis |-> axis,
     ok |-> r.ok, value |-> r.value, pos |-> r.pos]
AxisKeywords(axis) ==
    IF axis = "Horizontal" THEN HorizontalPositionKeyword ELSE VerticalPositionKeyword

PosIdle ==
    /\ ptoks = <<>> /\ pval = NoPosition /\ pout = <<>> /\ ppc = "idle"
    /\ presQ = NotCalled /\ presS = NotCalled /\ pcomputed = NotComputed
    /\ presC = NoComponent

\* either a cursor before some tokens, or a Position value to serialize
PosInit ==
    /\ pout = <<>> /\ presQ = NotCalled /\ presS = NotCalled /\ pcomputed = NotComputed
    /\ presC = NoComponent
    /\ \/ ppc = "tokens" /\ ptoks \in SeqsUpTo(PosTokens, MaxPosTokens) /\ pval = NoPosition
       \/ ppc = "value" /\ ptoks = <<>> /\ pval \in Positions

\* Position::parse_three_value_quirky on the input, with or without quirks
ParseThreeValueQuirky ==
    /\ ppc = "tokens" /\ ~presQ.called
    /\ \E allow_quirks \in {"No", "Yes"} :
         presQ' = Called(parse_three_value_quirky(ptoks, 0, allow_quirks), allow_quirks)
    /\ UNCHANGED <<ptoks, pval, pout, ppc, presS, pcomputed, presC>>
    /\ UNCHANGED <<taVars, flowVars, arVars, masonVars, rowVars, tokVars, centerVars, liveVars>>

\* PositionComponent::<S>::parse_quirky on the input, for either keyword enum
ParseQuirkyComponent ==
    /\ ppc = "tokens" /\ ~presQ.called /\ ~presS.called
    /\ \E axis \in {"Horizontal", "Vertical"}, allow_quirks \in {"No", "Yes"} :
         presC' = CalledFor(axis, parse_quirky(AxisKeywords(axis), ptoks, 0, allow_quirks),
                            allow_quirks)
    /\ ppc' = "component"
    /\ UNCHANGED <<ptoks, pval, pout, presQ, presS, pcomputed>>
    /\ UNCHANGED <<taVars, flowVars, arVars, masonVars, rowVars, tokVars, centerVars, liveVars>>

\* Position::parse on the input
PositionParse ==
    /\ ppc = "tokens" /\ ~presS.called
    /\ presS' = Called(Position_parse(ptoks, 0), "No")
    /\ UNCHANGED <<ptoks, pval, pout, ppc, presQ, pcomputed, presC>>
    /\ UNCHANGED <<taVars, flowVars, arVars, masonVars, rowVars, tokVars, centerVars, liveVars>>

\* Position::to_css on the value
PositionToCss ==
    /\ ppc = "value"
    /\ pout' = Position_to_css(pval)
    /\ ppc' = "written"
    /\ UNCHANGED <<ptoks, pval, presQ, presS, pcomputed, presC>>
    /\ UNCHANGED <<taVars, flowVars, arVars, masonVars, rowVars, tokVars, centerVars, liveVars>>

\* Position::to_css on the Position that parse_three_value_quirky returned
PositionToCssParsed ==
    /\ ppc = "tokens" /\ presQ.called /\ presQ.ok
    /\ pval' = presQ.value
    /\ pout' = Position_to_css(presQ.value)
    /\ ppc' = "serialized"
    /\ UNCHANGED <<ptoks, presQ, presS, pcomputed, presC>>
    /\ UNCHANGED <<taVars, flowVars, arVars, masonVars, rowVars, tokVars, centerVars, liveVars>>

\* PositionComponent::to_computed_value on the two components of the value
PositionToComputedValue ==
    /\ ppc = "value"
    /\ pcomputed' = [horizontal |-> to_computed_value(HorizontalPositionKeyword, pval.horizontal),
                     vertical |-> to_computed_value(VerticalPositionKeyword, pval.vertical)]
    /\ ppc' = "computed"
    /\ UNCHANGED <<ptoks, pval, pout, presQ, presS, presC>>
    /\ UNCHANGED <<taVars, flowVars, arVars, masonVars, rowVars, tokVars, centerVars, liveVars>>

\* Position::parse on what to_css wrote
PositionReparse ==
    /\ ppc = "written"
    /\ presS' = Called(Position_parse(CssTokens(pout), 0), "No")
    /\ ppc' = "reparsed"
    /\ UNCHANGED <<ptoks, pval, pout, presQ, pcomputed, presC>>
    /\ UNCHANGED <<taVars, flowVars, arVars, masonVars, rowVars, tokVars, centerVars, liveVars>>

(***************************************************************************)
(* GridAutoFlow                                                            *)
(***************************************************************************)
ROW == 1
COLUMN == 2
DENSE == 4

\* the bits of the u8 that the three flags use
BitOf(v, b) == (v \div b) % 2
BitOr(v, w) ==
    ROW * (IF BitOf(v, ROW) + BitOf(w, ROW) > 0 THEN 1 ELSE 0)
    + COLUMN * (IF BitOf(v, COLUMN) + BitOf(w, COLUMN) > 0 THEN 1 ELSE 0)
    + DENSE * (IF BitOf(v, DENSE) + BitOf(w, DENSE) > 0 THEN 1 ELSE 0)

\* The tokens of a grid-auto-flow input: identifiers, and a number
FlowTokens == {"row", "column", "dense", "ROW", "foo", "1"}
FlowIdents == {"row", "column", "dense", "ROW", "foo"}
FlowLower(ident) == IF ident = "ROW" THEN "row" ELSE ident

NoTrack == 0   \* track = None; dense = GridAutoFlow::empty() is 0 as well

\* match_ignore_ascii_case! { &ident, .. }: success, and the two locals after it
flow_match_unguarded(ident, track, dense) ==
    IF FlowLower(ident) = "row" THEN [success |-> TRUE, track |-> ROW, dense |-> dense]
    ELSE IF FlowLower(ident) = "column" THEN [success |-> TRUE, track |-> COLUMN, dense |-> dense]
    ELSE IF FlowLower(ident) = "dense" THEN [success |-> TRUE, track |-> track, dense |-> DENSE]
    ELSE [success |-> FALSE, track |-> track, dense |-> dense]

flow_match(ident, track, dense) ==
    IF FlowLower(ident) = "row" /\ track = NoTrack
    THEN [success |-> TRUE, track |-> ROW, dense |-> dense]
    ELSE IF FlowLower(ident) = "column" /\ track = NoTrack
    THEN [success |-> TRUE, track |-> COLUMN, dense |-> dense]
    ELSE IF FlowLower(ident) = "dense" /\ dense = 0
    THEN [success |-> TRUE, track |-> track, dense |-> DENSE]
    ELSE [success |-> FALSE, track |-> track, dense |-> dense]

\* a variant without the ROW default for a missing track keyword
flow_end_no_default(track, dense, pos) ==
    IF track # NoTrack \/ dense # 0
    THEN Ok(BitOr(track, dense), pos)
    ELSE Err(pos)

\* after the loop
flow_end(track, dense, pos) ==
    IF track # NoTrack \/ dense # 0
    THEN Ok(BitOr(IF track # NoTrack THEN track ELSE ROW, dense), pos)
    ELSE Err(pos)

\* `while !input.is_exhausted() { .. }`
RECURSIVE flow_loop(_, _, _, _)
flow_turn(m, toks, pos) ==
    IF ~m.success THEN Err(pos) ELSE flow_loop(toks, pos, m.track, m.dense)

flow_loop(toks, pos, track, dense) ==
    IF pos >= Len(toks) THEN flow_end(track, dense, pos)
    ELSE IF toks[pos + 1] \notin FlowIdents THEN Err(pos + 1)
    ELSE flow_turn(flow_match(toks[pos + 1], track, dense), toks, pos + 1)

GridAutoFlow_parse(toks) == flow_loop(toks, 0, NoTrack, 0)

\* <GridAutoFlow as ToCss>::to_css: what it writes, as tokens and the spaces
\* between them, and whether it came to its debug_assert!(false)
Wrote(pieces) == [written |-> pieces, assert_failed |-> FALSE]

GridAutoFlow_to_css(self) ==
    IF self = ROW THEN Wrote(<<"row">>)
    ELSE IF self = COLUMN THEN Wrote(<<"column">>)
    ELSE IF self = BitOr(ROW, DENSE) THEN Wrote(<<"dense">>)
    ELSE IF self = BitOr(COLUMN, DENSE) THEN Wrote(<<"column", " ", "dense">>)
    ELSE [written |-> <<>>, assert_failed |-> TRUE]

NotWritten == [written |-> <<>>, assert_failed |-> FALSE]

FlowIdle ==
    /\ gtoks = <<>> /\ gres = NotCalled /\ gpc = "idle"
    /\ gout = NotWritten /\ gagain = NotCalled

FlowInit ==
    /\ gtoks \in SeqsUpTo(FlowTokens, MaxFlowTokens) /\ gres = NotCalled /\ gpc = "tokens"
    /\ gout = NotWritten /\ gagain = NotCalled

GridAutoFlowParse ==
    /\ gpc = "tokens"
    /\ gres' = Called(GridAutoFlow_parse(gtoks), None)
    /\ gpc' = "parsed"
    /\ UNCHANGED <<gtoks, gout, gagain>>
    /\ UNCHANGED <<taVars, posVars, arVars, masonVars, rowVars, tokVars, centerVars, liveVars>>

\* <GridAutoFlow as ToCss>::to_css on the value that parse returned
GridAutoFlowToCss ==
    /\ gpc = "parsed" /\ gres.ok
    /\ gout' = GridAutoFlow_to_css(gres.value)
    /\ gpc' = "written"
    /\ UNCHANGED <<gtoks, gres, gagain>>
    /\ UNCHANGED <<taVars, posVars, arVars, masonVars, rowVars, tokVars, centerVars, liveVars>>

\* GridAutoFlow::parse on what to_css wrote
GridAutoFlowReparse ==
    /\ gpc = "written"
    /\ gagain' = Called(GridAutoFlow_parse(CssTokens(gout.written)), None)
    /\ gpc' = "reparsed"
    /\ UNCHANGED <<gtoks, gres, gout>>
    /\ UNCHANGED <<taVars, posVars, arVars, masonVars, rowVars, tokVars, centerVars, liveVars>>

(***************************************************************************)
(* MasonryAutoFlow                                                         *)
(***************************************************************************)
\* The tokens of a masonry-auto-flow input: identifiers, and a number
MasonryTokens == {"pack", "next", "definite-first", "ordered", "PACK", "foo", "1"}
MasonryIdents == {"pack", "next", "definite-first", "ordered", "PACK", "foo"}
MasonryLower(ident) == IF ident = "PACK" THEN "pack" ELSE ident

MasonryAutoFlow(placement, order) == [placement |-> placement, order |-> order]

\* MasonryAutoFlow::initial()
MasonryAutoFlow_initial == MasonryAutoFlow("Pack", "DefiniteFirst")

\* the locals of MasonryAutoFlow::parse
MasonryLocals(value, got_placement, got_order, success) ==
    [value |-> value, got_placement |-> got_placement, got_order |-> got_order,
     success |-> success]

masonry_match_unguarded(ident, m) ==
    IF MasonryLower(ident) = "pack"
    THEN MasonryLocals(m.value, TRUE, m.got_order, TRUE)
    ELSE IF MasonryLower(ident) = "next"
    THEN MasonryLocals([m.value EXCEPT !.placement = "Next"], TRUE, m.got_order, TRUE)
    ELSE IF MasonryLower(ident) = "definite-first"
    THEN MasonryLocals(m.value, m.got_placement, TRUE, TRUE)
    ELSE IF MasonryLower(ident) = "ordered"
    THEN MasonryLocals([m.value EXCEPT !.order = "Ordered"], m.got_placement, TRUE, TRUE)
    ELSE MasonryLocals(m.value, m.got_placement, m.got_order, FALSE)

\* match_ignore_ascii_case! { &ident, .. }: success, and the locals after it
masonry_match(ident, m) ==
    IF MasonryLower(ident) = "pack" /\ ~m.got_placement
    THEN MasonryLocals(m.value, TRUE, m.got_order, TRUE)
    ELSE IF MasonryLower(ident) = "next" /\ ~m.got_placement
    THEN MasonryLocals([m.value EXCEPT !.placement = "Next"], TRUE, m.got_order, TRUE)
    ELSE IF MasonryLower(ident) = "definite-first" /\ ~m.got_order
    THEN MasonryLocals(m.value, m.got_placement, TRUE, TRUE)
    ELSE IF MasonryLower(ident) = "ordered" /\ ~m.got_order
    THEN MasonryLocals([m.value EXCEPT !.order = "Ordered"], m.got_placement, TRUE, TRUE)
    ELSE MasonryLocals(m.value, m.got_placement, m.got_order, FALSE)

\* after the loop
masonry_end(m, pos) ==
    IF m.got_placement \/ m.got_order THEN Ok(m.value, pos) ELSE Err(pos)

\* `while !input.is_exhausted() { .. }`
RECURSIVE masonry_loop(_, _, _)
masonry_turn(m, toks, pos) ==
    IF ~m.success THEN Err(pos) ELSE masonry_loop(toks, pos, m)

masonry_loop(toks, pos, m) ==
    IF pos >= Len(toks) THEN masonry_end(m, pos)
    ELSE IF toks[pos + 1] \notin MasonryIdents THEN Err(pos + 1)
    ELSE masonry_turn(masonry_match(toks[pos + 1], m), toks, pos + 1)

MasonryAutoFlow_parse(toks) ==
    masonry_loop(toks, 0, MasonryLocals(MasonryAutoFlow_initial, FALSE, FALSE, TRUE))

MasonryIdle == mtoks = <<>> /\ mres = NotCalled /\ mpc = "idle"

MasonryInit ==
    mtoks \in SeqsUpTo(MasonryTokens, MaxMasonryTokens) /\ mres = NotCalled /\ mpc = "tokens"

MasonryAutoFlowParse ==
    /\ mpc = "tokens"
    /\ mres' = Called(MasonryAutoFlow_parse(mtoks), None)
    /\ mpc' = "parsed"
    /\ UNCHANGED mtoks
    /\ UNCHANGED <<taVars, posVars, flowVars, arVars, rowVars, tokVars, centerVars, liveVars>>

(***************************************************************************)
(* AspectRatio                                                             *)
(***************************************************************************)
\* The tokens of an aspect-ratio input: `auto`, two numbers, the delimiter
\* `/`, and an identifier of no grammar
RatioTokens == {"auto", "1", "2", "/", "foo"}
RatioNumbers == {"1", "2"}

\* NonNegativeNumber::parse
NonNegativeNumber_parse(toks, pos) ==
    IF Peek(toks, pos) \in RatioNumbers THEN Ok(Peek(toks, pos), pos + 1) ELSE Err(pos)

Ratio(a, b) == [width |-> a, height |-> b]

\* input.try_parse(|i| Ratio::parse(context, i)): <number> [ / <number> ]?,
\* the height 1 when it is not given
Ratio_second(a, b, pos) ==
    IF b.ok THEN Ok(Ratio(a.value, b.value), b.pos) ELSE Err(pos)

Ratio_first(a, toks, pos) ==
    IF ~a.ok THEN Err(pos)
    ELSE IF Peek(toks, a.pos) = "/"
    THEN Ratio_second(a, NonNegativeNumber_parse(toks, a.pos + 1), pos)
    ELSE Ok(Ratio(a.value, "1"), a.pos)

Ratio_parse(toks, pos) == Ratio_first(NonNegativeNumber_parse(toks, pos), toks, pos)

\* PreferredRatio::None, and PreferredRatio::Ratio(r) as r itself
PreferredRatio_None == Ratio(None, None)
PreferredRatio(ratio) == IF ratio.ok THEN ratio.value ELSE PreferredRatio_None

AspectRatioValue(auto, ratio) == [auto |-> auto, ratio |-> ratio]

\* AspectRatio::parse after its three try_parse calls; auto2 is the second
\* attempt at `auto`, made only when the first failed
AspectRatio_end(auto, ratio, auto2, pos) ==
    IF ~(auto.ok \/ auto2.ok) /\ ~ratio.ok THEN Err(pos)
    ELSE Ok(AspectRatioValue(auto.ok \/ auto2.ok, PreferredRatio(ratio)),
            IF auto.ok THEN ratio.pos ELSE auto2.pos)

AspectRatio_ratio_no_retry(auto, ratio, toks, pos) ==
    AspectRatio_end(auto, ratio, Err(ratio.pos), pos)

AspectRatio_ratio(auto, ratio, toks, pos) ==
    AspectRatio_end(auto, ratio,
        IF ~auto.ok THEN expect_ident_matching(toks, ratio.pos, "auto") ELSE Err(ratio.pos),
        pos)

AspectRatio_auto(auto, toks, pos) ==
    AspectRatio_ratio(auto, Ratio_parse(toks, auto.pos), toks, pos)

AspectRatio_parse(toks, pos) ==
    AspectRatio_auto(expect_ident_matching(toks, pos, "auto"), toks, pos)

RatioIdle == atoks = <<>> /\ ares = NotCalled /\ apc = "idle"

RatioInit == atoks \in SeqsUpTo(RatioTokens, MaxRatioTokens) /\ ares = NotCalled /\ apc = "tokens"

AspectRatioParse ==
    /\ apc = "tokens"
    /\ ares' = Called(AspectRatio_parse(atoks, 0), None)
    /\ apc' = "parsed"
    /\ UNCHANGED atoks
    /\ UNCHANGED <<taVars, posVars, flowVars, masonVars, rowVars, tokVars, centerVars, liveVars>>

(***************************************************************************)
(* Claims about the turns of parse_string                                  *)
(***************************************************************************)
\* a turn of the loop is taken on a named cell while an area is open
C14Turn(t) ==
    /\ rpc = "loop" /\ rpc' = "loop" /\ rst' # rst
    /\ t.kind = "name" /\ rst.current # NoIndex

C14OtherCell(t, open) ==
    open.columns.end # rst.column + 1 => rst'.err

C14Extended(open) ==
    /\ ~rst'.err /\ rst'.current = rst.current
    /\ rst'.areas = [rst.areas EXCEPT ![rst.current + 1].columns.end = open.columns.end + 1]

C14Claimed(t, open) ==
    IF open.name = t.token /\ open.rows.start = rp.row
    THEN C14Extended(open)
    ELSE C14OtherCell(t, open)

C14Found(t, open) ==
    IF open.name = t.token /\ open.rows.start = rp.row
    THEN C14Extended(open)
    ELSE IF open.name = t.token
    THEN ~rst'.err /\ rst'.current = rst.current /\ rst'.areas = rst.areas
    ELSE C14OtherCell(t, open)

\* C14 as the spec words it: a cell with the name of the open area on a row
\* after the area's first row is held to the check columns.end == column too.
C14_AsClaimed ==
    [][C14Turn(TokenizerNext(rrest)) =>
           C14Claimed(TokenizerNext(rrest), rst.areas[rst.current + 1])]_vars

\* C14: a named cell with the name of the open area always continues it:
\* columns.end is extended when the area started on the current row, and
\* nothing is changed or checked when it started on an earlier row; a named
\* cell with another name requires columns.end == column, else the row fails.
C14_SameNameContinues ==
    [][C14Turn(TokenizerNext(rrest)) =>
           C14Found(TokenizerNext(rrest), rst.areas[rst.current + 1])]_vars

\* on the second row of "a a", "a a" the second cell has continued the area a
\* of the first row, whose columns.end is 3
C14_Witness ==
    /\ rpc = "loop" /\ rp.row = 2 /\ rst.column = 2 /\ ~rst.err
    /\ rst.current = 0
    /\ rst.areas = << NamedArea(<<ChA>>, 1, 3, 1, 3) >>
    /\ rst.simplified = <<ChA, ChSpace, ChA>>

\* C15: the debug_assert_ne! at the end of parse_string never fails: an area
\* that started on the current row and is still open ends at column + 1, so a
\* row that ends with an open area of another columns.end did not start it.
C15_AssertNeverFails ==
    /\ ~rres.assert_failed
    /\ rpc = "loop" /\ ~rst.err /\ rst.current # NoIndex
       /\ rst.areas[rst.current + 1].rows.start = rp.row
           => rst.areas[rst.current + 1].columns.end = rst.column + 1

\* a row ended with an open area whose columns.end is not column + 1: the
\* assertion was evaluated and held, and the row was rejected
C15_Witness ==
    /\ rpc = "between" /\ rcalls > 0 /\ ~rres.ok /\ ~rres.assert_failed
    /\ ~rst.err /\ rst.column > 0 /\ rst.current # NoIndex
    /\ rst.areas[rst.current + 1].columns.end # rst.column + 1
    /\ rst.areas[rst.current + 1].rows.start # rp.row

\* the two fields as the code has them at this point
RowAreas == IF rpc = "loop" THEN rst.areas ELSE rp.areas
RowIndices == IF rpc = "loop" THEN rst.area_indices ELSE rp.area_indices

C20Indexed(as, indices) ==
    /\ DOMAIN indices = {as[i].name : i \in 1..Len(as)}
    /\ \A i \in 1..Len(as) : indices[as[i].name] = i - 1
    /\ \A i \in 1..Len(as) :
           as[i].rows.start < as[i].rows.end /\ as[i].columns.start < as[i].columns.end

C20AppendOnly(as, as2) ==
    /\ Len(as2) >= Len(as)
    /\ \A i \in 1..Len(as) :
           /\ as2[i].name = as[i].name
           /\ as2[i].rows.start = as[i].rows.start
           /\ as2[i].columns.start = as[i].columns.start

\* a turn that adds an area adds one, at the end, for the name just read,
\* which no area had
C20FirstSeen(t, as, as2) ==
    Len(as2) > Len(as) =>
        /\ rpc = "loop" /\ t.kind = "name"
        /\ \A i \in 1..Len(as) : as[i].name # t.token
        /\ Len(as2) = Len(as) + 1
        /\ as2[Len(as2)].name = t.token

\* C20: after any sequence of parse_string calls areas is append-only,
\* area_indices maps each name seen to the index of the one area of that name,
\* the areas are in first-seen order and none has an empty range.
C20_AreasAppendOnly ==
    /\ [](rpc # "idle" => C20Indexed(RowAreas, RowIndices))
    /\ [][/\ C20AppendOnly(RowAreas, RowAreas')
          /\ C20FirstSeen(TokenizerNext(rrest), RowAreas, RowAreas')]_vars

\* after the rows ". a" and "b a": a was seen first and has grown, b was added
C20_Witness ==
    /\ rpc = "between" /\ rcalls = 2 /\ rres.ok
    /\ rp.areas = << NamedArea(<<ChA>>, 2, 3, 1, 3), NamedArea(<<ChB>>, 1, 2, 2, 3) >>
    /\ rp.area_indices[<<ChA>>] = 0 /\ rp.area_indices[<<ChB>>] = 1

(***************************************************************************)
(* Claims about <position>                                                 *)
(***************************************************************************)
\* a component of two parts: a side keyword with an offset
HasOffset(c) == c.tag = "Side" /\ c.lp # None

\* C4: for every Position whose two components have the same number of parts,
\* Position::parse on what Position::to_css wrote succeeds, consumes every
\* token and returns that Position.
C4_RoundTrip ==
    ppc = "reparsed" /\ (HasOffset(pval.horizontal) <=> HasOffset(pval.vertical)) =>
        /\ presS.ok
        /\ presS.value = pval
        /\ presS.pos = Len(CssTokens(pout))

\* `left 10px`, written for (Side(Left, None), Length(10px)), was parsed back
C4_Witness ==
    /\ ppc = "reparsed"
    /\ pval = Position(Side("Left", None), Length("10px"))
    /\ pout = <<"left", " ", "10px">>
    /\ presS.ok /\ presS.value = pval /\ presS.pos = 2

C5Same(q, s) ==
    /\ s.ok <=> (q.ok /\ (HasOffset(q.value.horizontal) <=> HasOffset(q.value.vertical)))
    /\ s.ok => s.value = q.value /\ s.pos = q.pos
    /\ s.ok => ~(HasOffset(s.value.horizontal) /\ ~HasOffset(s.value.vertical))
               /\ ~(HasOffset(s.value.vertical) /\ ~HasOffset(s.value.horizontal))

\* C5: Position::parse fails exactly when parse_three_value_quirky without
\* quirks fails or returns components with different numbers of parts, and
\* returns its result otherwise; `center top 10px` is rejected by the strict
\* entry point and accepted by the quirky one, `right 10px bottom 50%` gives
\* Side(Right, 10px), Side(Bottom, 50%).
C5_StrictFiltersThreeValue ==
    ppc = "tokens" /\ presS.called /\ presQ.called =>
        /\ presQ.allow_quirks = "No" => C5Same(presQ, presS)
        /\ ptoks = <<"center", "top", "10px">> => ~presS.ok /\ presQ.ok
        /\ ptoks = <<"right", "10px", "bottom", "50%">> =>
               /\ presS.ok
               /\ presS.value = Position(Side("Right", "10px"), Side("Bottom", "50%"))

\* both entry points ran on `center top 10px`: the quirky one returned the
\* three-value Position, the strict one failed
C5_Witness ==
    /\ ppc = "tokens" /\ ptoks = <<"center", "top", "10px">>
    /\ presQ.called /\ presQ.allow_quirks = "No" /\ presQ.ok
    /\ presQ.value = Position(Center, Side("Top", "10px"))
    /\ presS.called /\ ~presS.ok

\* the horizontal component parsed as a side, and the token after it is neither
\* `center` nor a vertical side keyword
C6Case(first) ==
    /\ first.ok /\ first.value.tag = "Side"
    /\ AsciiLower(Peek(ptoks, first.pos)) \notin {"center", "top", "bottom"}

C6Claimed(first) ==
    C6Case(first) =>
        /\ presQ.ok
        /\ presQ.value.vertical = Center
        /\ first.value.lp # None => presQ.value.horizontal = Length(first.value.lp)

C6Found(first) ==
    C6Case(first) =>
        /\ presQ.ok
        /\ presQ.value.horizontal = Side(first.value.kw, None)
        /\ presQ.value.vertical =
               IF first.value.lp = None THEN Center ELSE Length(first.value.lp)
        /\ presQ.pos = first.pos

\* C6 as the spec words it: the vertical component is Center and a dangling
\* offset turns the horizontal component into Length(x_offset).
C6_AsClaimed ==
    ppc = "tokens" /\ presQ.called =>
        C6Claimed(parse_quirky(HorizontalPositionKeyword, ptoks, 0, presQ.allow_quirks))

\* C6: when the horizontal component parses as Side(x_kw, x_offset) and neither
\* `center` nor a vertical side keyword follows, the result is horizontal =
\* Side(x_kw, None) and vertical = Length(x_offset) if the offset was present,
\* Center if not.
C6_DanglingOffsetIsVertical ==
    ppc = "tokens" /\ presQ.called =>
        C6Found(parse_quirky(HorizontalPositionKeyword, ptoks, 0, presQ.allow_quirks))

\* `right 50% foo`: the offset after `right` became the vertical length
C6_Witness ==
    /\ ppc = "tokens" /\ ptoks = <<"right", "50%", "foo">>
    /\ presQ.called /\ presQ.ok /\ presQ.pos = 2
    /\ presQ.value = Position(Side("Right", None), Length("50%"))

C10Expected(h, v) ==
    IF HasOffset(h) /\ v.tag = "Length"
    THEN PositionComponent_to_css(h) \o <<" ", "top", " ", v.lp>>
    ELSE IF h.tag = "Length" /\ HasOffset(v)
    THEN <<"left", " ", h.lp, " ">> \o PositionComponent_to_css(v)
    ELSE PositionComponent_to_css(h) \o <<" ">> \o PositionComponent_to_css(v)

\* C10: Position::to_css writes `<horizontal> top <y-length>` for a side with
\* offset and a bare length, `left <x-length> <vertical>` for a bare length and
\* a side with offset, and the horizontal component, one space and the
\* vertical component in every other case: (Length(50%), Side(Top, None)) is
\* written `50% top`.
C10_ToCssBranches ==
    ppc \in {"written", "reparsed"} =>
        /\ pout = C10Expected(pval.horizontal, pval.vertical)
        /\ pval = Position(Length("50%"), Side("Top", None)) => pout = <<"50%", " ", "top">>
        /\ pval = Position(Side("Right", "10px"), Length("50%")) =>
               pout = <<"right", " ", "10px", " ", "top", " ", "50%">>
        /\ pval = Position(Length("10px"), Side("Bottom", "50%")) =>
               pout = <<"left", " ", "10px", " ", "bottom", " ", "50%">>

\* (Length(10px), Side(Bottom, 50%)) was written `left 10px bottom 50%`
C10_Witness ==
    /\ ppc = "written"
    /\ pval = Position(Length("10px"), Side("Bottom", "50%"))
    /\ pout = <<"left", " ", "10px", " ", "bottom", " ", "50%">>

(***************************************************************************)
(* Claims about the branches of parse_three_value_quirky                   *)
(***************************************************************************)
\* the token at cursor position i of the input, ASCII case folded
TokAt(i) == AsciiLower(Peek(ptoks, i))
VKw(t) == IF t = "top" THEN "Top" ELSE IF t = "bottom" THEN "Bottom" ELSE None
HKw(t) == IF t = "left" THEN "Left" ELSE IF t = "right" THEN "Right" ELSE None

\* the <length-percentage> at position i, if there is one
LpOf(r) == IF r.ok THEN r.value ELSE None
LpAt(i, q) == LpOf(LengthPercentage_parse_quirky(ptoks, i, q))
LpLen(i, q) == IF LpAt(i, q) = None THEN 0 ELSE 1

C16Nested(y_kw, y_off, n, q) ==
    IF HKw(TokAt(n)) # None
    THEN Ok(Position(Side(HKw(TokAt(n)), LpAt(n + 1, q)), Side(y_kw, y_off)),
            n + 1 + LpLen(n + 1, q))
    ELSE IF TokAt(n) = "center"
    THEN Ok(Position(Center, Side(y_kw, y_off)), n + 1)
    ELSE Ok(Position(Center, Side(y_kw, None)), 1)

C16Expected(q) == C16Nested(VKw(TokAt(0)), LpAt(1, q), 1 + LpLen(1, q), q)

SameResult(r, e) == r.ok = e.ok /\ r.pos = e.pos /\ (r.ok => r.value = e.value)

\* C16: when the input starts with a vertical side keyword y_kw, followed by
\* an optional offset and then a horizontal side keyword with optional offset
\* or `center`, the result is (that horizontal component, Side(y_kw, offset));
\* otherwise it is (Center, Side(y_kw, None)) with the cursor just after y_kw:
\* `top 10px` leaves `10px` unread.
C16_VerticalFirst ==
    ppc = "tokens" /\ presQ.called /\ VKw(TokAt(0)) # None =>
        /\ SameResult(presQ, C16Expected(presQ.allow_quirks))
        /\ ptoks = <<"top", "10px">> =>
               presQ.value = Position(Center, Side("Top", None)) /\ presQ.pos = 1

\* `bottom 50% foo`: the nested attempt read 50% and failed at foo; the result
\* is (Center, Side(Bottom, None)) and the cursor stands after `bottom`
C16_Witness ==
    /\ ppc = "tokens" /\ ptoks = <<"bottom", "50%", "foo">>
    /\ presQ.called /\ presQ.ok /\ presQ.pos = 1
    /\ presQ.value = Position(Center, Side("Bottom", None))

C17Expected(t1, lp1, q) ==
    IF t1 = "center" THEN Ok(Position(Center, Center), 2)
    ELSE IF lp1 # None THEN Ok(Position(Center, Length(lp1)), 2)
    ELSE IF VKw(t1) # None
    THEN Ok(Position(Center, Side(VKw(t1), LpAt(2, q))), 2 + LpLen(2, q))
    ELSE IF HKw(t1) # None
    THEN Ok(Position(Side(HKw(t1), LpAt(2, q)), Center), 2 + LpLen(2, q))
    ELSE Ok(Position(Center, Center), 1)

\* C17: when the first component is `center`: a vertical-shaped component
\* after it gives (Center, that component); else a horizontal side keyword
\* with optional offset gives (Side(x_kw, offset), Center); else the result is
\* (Center, Center) with nothing further consumed.  `center center` is Center
\* on both axes, `center left 10px` is (Side(Left, 10px), Center).
C17_CenterFirst ==
    ppc = "tokens" /\ presQ.called /\ TokAt(0) = "center" =>
        /\ SameResult(presQ, C17Expected(TokAt(1), LpAt(1, presQ.allow_quirks),
                                         presQ.allow_quirks))
        /\ ptoks = <<"center", "center">> => presQ.value = Position(Center, Center)
        /\ ptoks = <<"center", "left", "10px">> =>
               presQ.value = Position(Side("Left", "10px"), Center)

\* `center left 10px` was parsed to the three-value form
C17_Witness ==
    /\ ppc = "tokens" /\ ptoks = <<"center", "left", "10px">>
    /\ presQ.called /\ presQ.ok /\ presQ.pos = 3
    /\ presQ.value = Position(Side("Left", "10px"), Center)

C18Expected(x_lp, t1, lp1) ==
    IF VKw(t1) # None THEN Ok(Position(Length(x_lp), Side(VKw(t1), None)), 2)
    ELSE IF lp1 # None THEN Ok(Position(Length(x_lp), Length(lp1)), 2)
    ELSE Ok(Position(Length(x_lp), Center), IF t1 = "center" THEN 2 ELSE 1)

\* C18: when the first component is a length-percentage x_lp: a vertical side
\* keyword after it gives (Length(x_lp), Side(y_kw, None)) and no offset after
\* the keyword is consumed; else another length-percentage gives (Length(x_lp),
\* Length(y_lp)); else the result is (Length(x_lp), Center), a trailing
\* `center` consumed.  `50% top` is (Length(50%), Side(Top, None)).
C18_LengthFirst ==
    ppc = "tokens" /\ presQ.called /\ LpAt(0, presQ.allow_quirks) # None =>
        /\ SameResult(presQ, C18Expected(LpAt(0, presQ.allow_quirks), TokAt(1),
                                         LpAt(1, presQ.allow_quirks)))
        /\ ptoks = <<"50%", "top">> => presQ.value = Position(Length("50%"), Side("Top", None))

\* `50% top 10px`: the offset after `top` was left unread
C18_Witness ==
    /\ ppc = "tokens" /\ ptoks = <<"50%", "top", "10px">>
    /\ presQ.called /\ presQ.ok /\ presQ.pos = 2
    /\ presQ.value = Position(Length("50%"), Side("Top", None))

\* a side with offset on one axis and a bare length on the other
C19Mixed(position) ==
    \/ HasOffset(position.horizontal) /\ position.vertical.tag = "Length"
    \/ position.horizontal.tag = "Length" /\ HasOffset(position.vertical)

\* C19: no Position returned by parse_three_value_quirky or Position::parse
\* pairs a side with offset on one axis with a bare length on the other, so
\* to_css writes every parsed Position as `<horizontal> <vertical>`.
C19_ParsedNeverMixed ==
    /\ presQ.called /\ presQ.ok => ~C19Mixed(presQ.value)
    /\ presS.called /\ presS.ok => ~C19Mixed(presS.value)
    /\ ppc = "serialized" =>
           pout = PositionComponent_to_css(pval.horizontal) \o <<" ">>
                      \o PositionComponent_to_css(pval.vertical)

\* `left 10px` was parsed to (Side(Left, None), Length(10px)) and written back
\* as `left 10px`
C19_Witness ==
    /\ ppc = "serialized" /\ ptoks = <<"left", "10px">>
    /\ pval = Position(Side("Left", None), Length("10px"))
    /\ pout = <<"left", " ", "10px">>

(***************************************************************************)
(* Claims about grid-auto-flow and aspect-ratio                            *)
(***************************************************************************)
FlowCount(toks, names) == Cardinality({i \in 1..Len(toks) : FlowLower(toks[i]) \in names})

\* a non-empty sequence of `row`, `column`, `dense`, at most one of the first
\* two and at most one `dense`
FlowGrammar(toks) ==
    /\ Len(toks) > 0
    /\ \A i \in 1..Len(toks) : FlowLower(toks[i]) \in {"row", "column", "dense"}
    /\ FlowCount(toks, {"row", "column"}) <= 1
    /\ FlowCount(toks, {"dense"}) <= 1

\* C8: GridAutoFlow::parse succeeds exactly on such a sequence; the bitset has
\* never both ROW and COLUMN, has COLUMN iff `column` was given and ROW if not,
\* and DENSE iff `dense` was given.
C8_GridAutoFlowGrammar ==
    gpc = "parsed" =>
        /\ gres.ok <=> FlowGrammar(gtoks)
        /\ gres.ok =>
            /\ ~(BitOf(gres.value, ROW) = 1 /\ BitOf(gres.value, COLUMN) = 1)
            /\ BitOf(gres.value, COLUMN) = 1 <=> FlowCount(gtoks, {"column"}) = 1
            /\ BitOf(gres.value, ROW) = 1 <=> FlowCount(gtoks, {"column"}) = 0
            /\ BitOf(gres.value, DENSE) = 1 <=> FlowCount(gtoks, {"dense"}) = 1
            /\ gres.value < 8
        /\ gtoks \in {<<"row", "dense">>, <<"column">>, <<"dense">>} => gres.ok
        /\ gtoks \in {<<"row", "column">>, <<"row", "row">>, <<>>} => ~gres.ok

\* `dense` alone was parsed to ROW | DENSE
C8_Witness ==
    gpc = "parsed" /\ gtoks = <<"dense">> /\ gres.ok /\ gres.value = 5

C9Auto(toks, ratio) ==
    IF ratio.ok THEN Ok(AspectRatioValue(TRUE, ratio.value), ratio.pos)
    ELSE Ok(AspectRatioValue(TRUE, PreferredRatio_None), 1)

C9Ratio(toks, ratio) ==
    IF ~ratio.ok THEN Err(0)
    ELSE IF Peek(toks, ratio.pos) = "auto"
    THEN Ok(AspectRatioValue(TRUE, ratio.value), ratio.pos + 1)
    ELSE Ok(AspectRatioValue(FALSE, ratio.value), ratio.pos)

\* what the grammar `auto || <ratio>` at the start of toks gives
C9Expected(toks) ==
    IF Peek(toks, 0) = "auto" THEN C9Auto(toks, Ratio_parse(toks, 1))
    ELSE C9Ratio(toks, Ratio_parse(toks, 0))

C9Same(r, e) == r.ok = e.ok /\ r.pos = e.pos /\ (r.ok => r.value = e.value)

\* C9: AspectRatio::parse succeeds exactly when the input starts with `auto`,
\* a ratio, `auto` and a ratio, or a ratio and `auto`; it consumes at most one
\* of each, auto is true iff an `auto` was consumed, the ratio is concrete iff
\* one was consumed, and no result has auto = false and ratio = None.
C9_AspectRatioGrammar ==
    apc = "parsed" =>
        /\ C9Same(ares, C9Expected(atoks))
        /\ ares.ok => ares.value.auto \/ ares.value.ratio # PreferredRatio_None
        /\ atoks \in {<<"auto">>, <<"1", "/", "2">>, <<"auto", "1", "/", "2">>,
                      <<"1", "/", "2", "auto">>} => ares.ok /\ ares.pos = Len(atoks)
        /\ atoks = <<>> => ~ares.ok

\* `1 / 2 auto` was parsed to auto = true with the ratio 1 / 2
C9_Witness ==
    /\ apc = "parsed" /\ atoks = <<"1", "/", "2", "auto">>
    /\ ares.ok /\ ares.pos = 4
    /\ ares.value = AspectRatioValue(TRUE, Ratio("1", "2"))

(***************************************************************************)
(* Claims about to_computed_value and masonry-auto-flow                    *)
(***************************************************************************)
\* the table of the claim for a component c whose start keyword is start
C11Expected(c, start) ==
    IF c = Center THEN [tag |-> "Percent", pct |-> 50, lp |-> None]
    ELSE IF c = Side(start, None) THEN [tag |-> "Percent", pct |-> 0, lp |-> None]
    ELSE IF c.tag = "Side" /\ c.lp = None THEN [tag |-> "Percent", pct |-> 100, lp |-> None]
    ELSE IF c.tag = "Length" \/ c.kw = start THEN [tag |-> "Computed", pct |-> 0, lp |-> c.lp]
    ELSE [tag |-> "HundredPercentMinus", pct |-> 100, lp |-> c.lp]

\* C11: to_computed_value maps Center to 50%, Side(start, None) to 0%,
\* Side(end, None) to 100%, Side(start, Some(len)) and Length(len) to the
\* computed len and Side(end, Some(len)) to the expression 100% - len, with
\* start = Left for the horizontal keyword and Top for the vertical one.
C11_ComputedValueTable ==
    ppc = "computed" =>
        /\ pcomputed.horizontal = C11Expected(pval.horizontal, "Left")
        /\ pcomputed.vertical = C11Expected(pval.vertical, "Top")
        /\ pval.vertical = Side("Top", None) => pcomputed.vertical.pct = 0
        /\ pval.vertical = Side("Bottom", "10px") =>
               pcomputed.vertical.tag = "HundredPercentMinus"
        /\ pval.horizontal = Side("Left", "10px") => pcomputed.horizontal.tag = "Computed"

\* (Side(Right, 10px), Side(Top, None)) was computed to (100% - 10px, 0%)
C11_Witness ==
    /\ ppc = "computed"
    /\ pval = Position(Side("Right", "10px"), Side("Top", None))
    /\ pcomputed.horizontal = [tag |-> "HundredPercentMinus", pct |-> 100, lp |-> "10px"]
    /\ pcomputed.vertical = [tag |-> "Percent", pct |-> 0, lp |-> None]

MasonryCount(toks, names) ==
    Cardinality({i \in 1..Len(toks) : MasonryLower(toks[i]) \in names})

\* a non-empty sequence of the four keywords, at most one of pack | next and
\* at most one of definite-first | ordered
MasonryGrammar(toks) ==
    /\ Len(toks) > 0
    /\ \A i \in 1..Len(toks) :
           MasonryLower(toks[i]) \in {"pack", "next", "definite-first", "ordered"}
    /\ MasonryCount(toks, {"pack", "next"}) <= 1
    /\ MasonryCount(toks, {"definite-first", "ordered"}) <= 1

\* C12: MasonryAutoFlow::parse succeeds exactly on such a sequence, in any
\* order; the placement is Next iff `next` was given and Pack otherwise, the
\* order is Ordered iff `ordered` was given and DefiniteFirst otherwise.
C12_MasonryAutoFlowGrammar ==
    mpc = "parsed" =>
        /\ mres.ok <=> MasonryGrammar(mtoks)
        /\ mres.ok =>
            /\ mres.pos = Len(mtoks)
            /\ mres.value.placement =
                   IF MasonryCount(mtoks, {"next"}) = 1 THEN "Next" ELSE "Pack"
            /\ mres.value.order =
                   IF MasonryCount(mtoks, {"ordered"}) = 1 THEN "Ordered" ELSE "DefiniteFirst"
        /\ mtoks \in {<<"ordered", "next">>, <<"next", "ordered">>, <<"PACK">>} => mres.ok
        /\ mtoks \in {<<"pack", "next">>, <<"ordered", "ordered">>, <<>>, <<"next", "1">>} =>
               ~mres.ok

\* `ordered next` was parsed to placement Next, order Ordered
C12_Witness ==
    /\ mpc = "parsed" /\ mtoks = <<"ordered", "next">>
    /\ mres.ok /\ mres.value = MasonryAutoFlow("Next", "Ordered")

(***************************************************************************)
(* Claims about the tokenizer of a row string                              *)
(***************************************************************************)
C21Space(c) == c \in {9, 10, 12, 13, 32}

C21Dot(c) == c = 46

\* ASCII letters, digits, `_`, `-`, or any code point from U+0080 up
C21Name(c) == c \in (65..90) \cup (97..122) \cup (48..57) \cup {95, 45} \/ c >= 128

\* the length of the maximal run of code points satisfying P at the head of s
C21Run(s, P(_)) ==
    CHOOSE n \in 0..Len(s) : (\A i \in 1..n : P(s[i])) /\ (n = Len(s) \/ ~P(s[n + 1]))

C21Drop(s, n) == SubSeq(s, n + 1, Len(s))

C21Cell(skipped, n, cell) ==
    /\ tkpc' = "run"
    /\ tkcells' = Append(tkcells, cell)
    /\ tkrest' = C21Drop(skipped, n)

C21Skipped(skipped) ==
    IF skipped = <<>> THEN tkpc' = "ended" /\ tkcells' = tkcells
    ELSE IF C21Dot(skipped[1]) THEN C21Cell(skipped, C21Run(skipped, C21Dot), <<>>)
    ELSE IF C21Name(skipped[1])
    THEN C21Cell(skipped, C21Run(skipped, C21Name),
                 SubSeq(skipped, 1, C21Run(skipped, C21Name)))
    ELSE tkpc' = "failed" /\ tkcells' = tkcells

C21Step == tkpc = "run" => C21Skipped(C21Drop(tkrest, C21Run(tkrest, C21Space)))

\* C21: each step of the tokenizer skips the HTML space characters and then
\* yields one null cell for a maximal run of `.`, or one name cell for a
\* maximal run of name code points (ASCII letters, digits, `_`, `-`, U+0080
\* and above), with no space needed between the two kinds of run, so that
\* `a..b` is three cells; it ends at the end of the string, and at a code
\* point that starts neither run it fails, which fails the row.
C21_TokenizerCells ==
    /\ [][C21Step]_vars
    /\ [](tkpc = "ended" /\ tkstr = <<ChA, ChDot, ChDot, ChB>> =>
              tkcells = << <<ChA>>, <<>>, <<ChB>> >>)
    /\ [](tkpc = "failed" => ~parse_string(RowFresh, tkstr).ok)

\* `a..b` was read to its end as three cells
C21_Witness ==
    /\ tkpc = "ended" /\ tkstr = <<ChA, ChDot, ChDot, ChB>>
    /\ Len(tkcells) = 3

(***************************************************************************)
(* Claims about one component of a <position>                              *)
(***************************************************************************)
\* the side keyword of the component's own axis that the first token spells
C22Keyword == IF presC.axis = "Horizontal" THEN HKw(TokAt(0)) ELSE VKw(TokAt(0))

C22Expected(q) ==
    IF TokAt(0) = "center" THEN Ok(Center, 1)
    ELSE IF LpAt(0, q) # None THEN Ok(Length(LpAt(0, q)), 1)
    ELSE IF C22Keyword # None THEN Ok(Side(C22Keyword, LpAt(1, q)), 1 + LpLen(1, q))
    ELSE Err(0)

\* C22: PositionComponent::parse_quirky returns Center for `center` in any
\* ASCII case, else Length(lp) for a <length-percentage>, else Side(kw, Some(lp))
\* or Side(kw, None) for a side keyword of its own axis with or without a
\* <length-percentage> after it, the cursor standing after what it took; it
\* fails when the next token is none of these.
C22_ComponentGrammar ==
    ppc = "component" =>
        /\ presC.ok = C22Expected(presC.allow_quirks).ok
        /\ presC.ok =>
               /\ presC.value = C22Expected(presC.allow_quirks).value
               /\ presC.pos = C22Expected(presC.allow_quirks).pos

\* `left 10px` was parsed as a horizontal component: the side with its offset
C22_Witness ==
    /\ ppc = "component" /\ presC.axis = "Horizontal"
    /\ ptoks = <<"left", "10px">>
    /\ presC.ok /\ presC.value = Side("Left", "10px") /\ presC.pos = 2

(***************************************************************************)
(* Claims about the serialization of grid-auto-flow                        *)
(***************************************************************************)
\* C23: for every value that GridAutoFlow::parse returned, to_css takes one
\* of its four cases and never comes to its debug assertion, writes one of
\* `row`, `column`, `dense`, `column dense`, so never nothing, and parse on
\* what it wrote returns the same value.
C23_ToCssRoundTrip ==
    /\ gpc \in {"written", "reparsed"} =>
           /\ ~gout.assert_failed
           /\ gout.written \in {<<"row">>, <<"column">>, <<"dense">>, <<"column", " ", "dense">>}
           /\ gout.written # <<>>
    /\ gpc = "reparsed" =>
           /\ gagain.ok
           /\ gagain.value = gres.value
           /\ gagain.pos = Len(CssTokens(gout.written))

\* `dense column` was parsed, written as `column dense` and parsed again
C23_Witness ==
    /\ gpc = "reparsed" /\ gtoks = <<"dense", "column">>
    /\ gout.written = <<"column", " ", "dense">>
    /\ gagain.ok /\ gagain.value = 6

(***************************************************************************)
(* Claims about the stored strings of grid-template-areas                  *)
(***************************************************************************)
\* the cells of a row joined by single spaces, a null cell written as one `.`
RECURSIVE C24Join(_)
C24Cell(cell) == IF cell = <<>> THEN <<ChDot>> ELSE cell

C24Join(cells) ==
    IF Len(cells) = 1 THEN C24Cell(cells[1])
    ELSE C24Cell(cells[1]) \o <<ChSpace>> \o C24Join(Tail(cells))

\* C24: when every row string fed to a fresh parser was accepted, each stored
\* string is the row's cells joined by single spaces with every null cell as
\* one `.`, and a fresh parser fed the stored strings accepts them all and
\* returns an equal TemplateAreas: the same areas, strings and width.
C24_NormalizationIdempotent ==
    pc = "again" /\ AllAccepted =>
        /\ Len(result.strings) = Len(fed)
        /\ \A i \in 1..Len(fed) : result.strings[i] = C24Join(Tokenize(FedRows[i]).cells)
        /\ again.accepted
        /\ again.result.ok
        /\ again.result.areas = result.areas
        /\ again.result.strings = result.strings
        /\ again.result.width = result.width

\* the rows ` a` and `..` were accepted, stored as `a` and `.`, and parsed again
C24_Witness ==
    /\ pc = "again" /\ AllAccepted
    /\ FedRows = << <<ChSpace, ChA>>, <<ChDot, ChDot>> >>
    /\ result.strings = << <<ChA>>, <<ChDot>> >>
    /\ again.accepted /\ again.result = result

(***************************************************************************)
(* Claims about is_center                                                  *)
(***************************************************************************)
C25Claimed(c) ==
    \/ c = Center
    \/ c = Length("50%")
    \/ \E kw \in {"Left", "Right", "Top", "Bottom"} : c = Side(kw, "50%")

C25Never(c) ==
    \/ c.tag = "Side" /\ c.lp = None
    \/ c.tag = "Length" /\ c.lp \in {"10px", "calc(50%)"}

\* C25: is_center holds exactly for Center, for a Length that is the
\* percentage 50%, and for a Side, whichever side, whose offset is the
\* percentage 50%; it is false for a Side without offset and for every length
\* that is not a percentage.
C25_IsCenterExactly ==
    cpc = "asked" =>
        /\ cres.horizontal = C25Claimed(cpos.horizontal)
        /\ cres.vertical = C25Claimed(cpos.vertical)
        /\ C25Never(cpos.horizontal) => ~cres.horizontal
        /\ C25Never(cpos.vertical) => ~cres.vertical

\* `right 50%` is the centre and `25%` is not
C25_Witness ==
    /\ cpc = "asked"
    /\ cpos = Position(Side("Right", "50%"), Length("25%"))
    /\ cres = [horizontal |-> TRUE, vertical |-> FALSE]

(***************************************************************************)
(* Claims about the termination of TemplateAreas::parse                    *)
(***************************************************************************)
\* a step of the tokenizer inside the row loop
C26TokenizerStep == rpc = "loop" /\ rpc' = "loop" /\ rst' # rst

\* an iteration of the while loop comes to its end
C26IterationEnd == lpc = "loop" /\ (rpc' = "between" \/ lpc' = "done") /\ <<rpc, lpc>>' # <<rpc, lpc>>

C26Step ==
    /\ C26TokenizerStep => rst'.err \/ Len(rrest') < Len(rrest)
    /\ C26IterationEnd =>
           \/ lpc' = "loop" /\ lcursor' = lcursor + 1
                 /\ linput[lcursor + 1].kind = "string"
           \/ lpc' = "done" /\ lcursor' = lcursor
    /\ lcursor' >= lcursor /\ lcursor' <= Len(linput)
    /\ linput' = linput

\* C26: TemplateAreas::parse terminates on every finite input: a step of the
\* tokenizer that neither ends the row nor fails it leaves a strictly shorter
\* remaining string, and an iteration of the row loop either consumes exactly
\* one string token or stops the loop, after which finish() returns.
C26_ParseTerminates ==
    /\ <>(lpc = "done")
    /\ [][C26Step]_vars
    /\ [](lpc = "done" => [](lpc = "done"))

\* the input `a` `a!` was read to the rejected second string and parse returned
C26_Witness ==
    /\ lpc = "done" /\ lcursor = 1 /\ rcalls = 2
    /\ linput = << StringToken(<<ChA>>), StringToken(<<ChA, ChBang>>) >>
    /\ lresult.ok

(***************************************************************************)
(* Specifications: one per grammar, the others idle                        *)
(***************************************************************************)
NoCenter == [horizontal |-> FALSE, vertical |-> FALSE]

CenterIdle == cpos = NoPosition /\ cres = NoCenter /\ cpc = "idle"

LiveIdle == linput = <<>> /\ lcursor = 0 /\ lresult = NoResult /\ lpc = "idle"

TAIdle ==
    /\ areas = <<>> /\ area_indices = <<>> /\ strings = <<>> /\ width = 0 /\ row = 0
    /\ driver = "idle" /\ pc = "idle" /\ result = NoResult /\ cursor = 0 /\ fed = <<>>
    /\ again = NotFedAgain

Init == TAInit /\ PosIdle /\ FlowIdle /\ RatioIdle /\ MasonryIdle /\ RowIdle
    /\ TokIdle /\ CenterIdle /\ LiveIdle

Next == TryParseString \/ Finish \/ ParseInternal \/ ParseAgain

Spec == Init /\ [][Next]_vars

InitPos == PosInit /\ TAIdle /\ FlowIdle /\ RatioIdle /\ MasonryIdle /\ RowIdle
    /\ TokIdle /\ CenterIdle /\ LiveIdle

NextPos ==
    \/ ParseThreeValueQuirky \/ PositionParse
    \/ PositionToCss \/ PositionReparse
    \/ PositionToComputedValue \/ PositionToCssParsed
    \/ ParseQuirkyComponent

SpecPos == InitPos /\ [][NextPos]_vars

InitFlow == FlowInit /\ TAIdle /\ PosIdle /\ RatioIdle /\ MasonryIdle /\ RowIdle
    /\ TokIdle /\ CenterIdle /\ LiveIdle

NextFlow == GridAutoFlowParse \/ GridAutoFlowToCss \/ GridAutoFlowReparse

SpecFlow == InitFlow /\ [][NextFlow]_vars

InitRatio == RatioInit /\ TAIdle /\ PosIdle /\ FlowIdle /\ MasonryIdle /\ RowIdle
    /\ TokIdle /\ CenterIdle /\ LiveIdle

NextRatio == AspectRatioParse

SpecRatio == InitRatio /\ [][NextRatio]_vars

InitMasonry == MasonryInit /\ TAIdle /\ PosIdle /\ FlowIdle /\ RatioIdle /\ RowIdle
    /\ TokIdle /\ CenterIdle /\ LiveIdle

NextMasonry == MasonryAutoFlowParse

SpecMasonry == InitMasonry /\ [][NextMasonry]_vars

InitRows == RowInit /\ TAIdle /\ PosIdle /\ FlowIdle /\ RatioIdle /\ MasonryIdle
    /\ TokIdle /\ CenterIdle /\ LiveIdle

NextRows == RowBegin \/ RowToken \/ RowEnd

SpecRows == InitRows /\ [][NextRows]_vars

InitTokenizer ==
    /\ TokInit /\ TAIdle /\ PosIdle /\ FlowIdle /\ RatioIdle /\ MasonryIdle /\ RowIdle
    /\ CenterIdle /\ LiveIdle

NextTokenizer == TokenizerStep

SpecTokenizer == InitTokenizer /\ [][NextTokenizer]_vars

InitCenter ==
    /\ CenterInit /\ TAIdle /\ PosIdle /\ FlowIdle /\ RatioIdle /\ MasonryIdle /\ RowIdle
    /\ TokIdle /\ LiveIdle

NextCenter == IsCenter

SpecCenter == InitCenter /\ [][NextCenter]_vars

InitLive ==
    /\ LiveInit /\ TAIdle /\ PosIdle /\ FlowIdle /\ RatioIdle /\ MasonryIdle
    /\ TokIdle /\ CenterIdle

NextLive == ParseBegin \/ RowToken \/ ParseRowEnd \/ ParseStop

\* the parse runs on: whenever a step can be taken, one is
SpecLive == InitLive /\ [][NextLive]_vars /\ WF_vars(NextLive)

====
